---- MODULE Spec2Model ----
(***************************************************************************)
(* Cross-exchange arbitrage discovery pipeline of                          *)
(* skills/find-arbitrage-opps/scripts/find_arb_opps.py: connector          *)
(* discovery, pair resolution and price collection over a thread pool,     *)
(* outlier filter, pairwise spread engine and ranking.                     *)
(*                                                                         *)
(* Strings the code inspects character by character (trading pairs,        *)
(* tokens, response keys) are sequences of one-character strings.          *)
(* Prices are integers; spread_pct is an exact reduced fraction            *)
(* [num, den].  The price domains below are chosen so that the IEEE-754    *)
(* evaluation of the code's comparisons agrees with the exact one.         *)
(***************************************************************************)
EXTENDS Integers, Sequences, FiniteSets, TLC

VARIABLES
    pc,               \* position of the main thread in main()
    args,             \* parsed command line: connectors, base, quote, min_spread
    connectors,       \* main(): connectors
    pair_futures,     \* main(): futures of the first pool (line 176), until
                      \* lines 200-203 bind the name to those of the second
    connector_pairs,  \* main(): connector_pairs, an insertion-ordered dict
    valid_pairs,      \* main(): valid_pairs (line 195)
    price_futures,    \* main(): futures of the second pool (line 200)
    prices,           \* main(): prices
    filtered_prices,  \* main(): filtered_prices
    outliers,         \* main(): outliers
    opportunities,    \* main(): opportunities
    exit_code,        \* process exit status, -1 while running
    stderr,           \* the diagnostic written to the error stream
    venuesResp,       \* what "list venues" answered in this run
    pairsResp,        \* per venue, what "list tradable pairs" answers when
                      \* the collaborator is steady
    pricesResp,       \* per venue, what "fetch prices" answers
    steady,           \* the collaborator answers every call to a venue alike
    calls,            \* HTTP requests issued so far, per endpoint and venue
    launch_env,       \* the environment the process was started with
    env_files,        \* the candidate .env files: absent, or their lines
    environ,          \* os.environ
    api_config        \* what get_api_config returned to the last request

vars == <<pc, args, connectors, pair_futures, connector_pairs, valid_pairs,
          price_futures, prices, filtered_prices, outliers, opportunities,
          exit_code, stderr, venuesResp, pairsResp, pricesResp, steady,
          calls, launch_env, env_files, environ, api_config>>

----------------------------------------------------------------------------
(* Strings                                                                 *)

Lowers == <<"a","b","c","d","e","f","g","h","i","j","k","l","m",
            "n","o","p","q","r","s","t","u","v","w","x","y","z">>
Uppers == <<"A","B","C","D","E","F","G","H","I","J","K","L","M",
            "N","O","P","Q","R","S","T","U","V","W","X","Y","Z">>

UpperTable ==
    [c \in {Lowers[i] : i \in DOMAIN Lowers} |->
        Uppers[CHOOSE i \in DOMAIN Lowers : Lowers[i] = c]]

\* str.upper() on one character
UpperChar(c) == IF c \in DOMAIN UpperTable THEN UpperTable[c] ELSE c

\* str.upper()
Upper(s) == [i \in 1..Len(s) |-> UpperChar(s[i])]

\* "c in s" for a one-character c
Contains(s, c) == \E i \in DOMAIN s : s[i] = c

\* s.split(sep, 1) for a string that contains sep
SplitOnce(s, sep) ==
    LET k == CHOOSE i \in DOMAIN s :
                 s[i] = sep /\ \A j \in 1..(i - 1) : s[j] # sep
    IN <<SubSeq(s, 1, k - 1), SubSeq(s, k + 1, Len(s))>>

Range(s) == {s[i] : i \in DOMAIN s}

BTC == <<"B","T","C">>
USDT == <<"U","S","D","T">>
USDC == <<"U","S","D","C">>
BTC_USDT == <<"B","T","C","-","U","S","D","T">>
BTC_USDC == <<"B","T","C","-","U","S","D","C">>
BTCUSDT == <<"B","T","C","U","S","D","T">>
ETH_USDT == <<"E","T","H","-","U","S","D","T">>
ErrorKey == <<"e","r","r","o","r">>
ETH == <<"E","T","H">>
A_slash_B == <<"A","/","B">>
btc == <<"b","t","c">>
usdt == <<"u","s","d","t">>
btc_usdt == <<"b","t","c","-","u","s","d","t">>
ETH_USDC == <<"E","T","H","-","U","S","D","C">>
ETH_slash_USDC == <<"E","T","H","/","U","S","D","C">>
ETHUSDC == <<"E","T","H","U","S","D","C">>

----------------------------------------------------------------------------
(* JSON values of a price response                                         *)

JAbsent == <<"absent">>          \* the key is not in the object
JNull == <<"null">>
JStr == <<"str", "abc">>         \* a non-empty string that is no number
JEmptyStr == <<"str", "">>       \* the empty string
JNum(n) == <<"num", n>>
JObj(mid, price, bid, ask) == <<"obj", mid, price, bid, ask>>

None == <<>>
Some(n) == <<n>>

\* dict.get(key): None when the key is absent
Get(v) == IF v = JAbsent THEN JNull ELSE v

\* truth value of a JSON scalar
Truthy(v) ==
    CASE v[1] = "num" -> v[2] # 0
      [] v[1] = "str" -> v[2] # ""
      [] OTHER -> FALSE

\* a or b
PyOr(a, b) == IF Truthy(a) THEN a ELSE b

\* float(v) raises for None and for a non-numeric string
FloatRaises(v) == v[1] # "num"

----------------------------------------------------------------------------
(* find_matching_pairs                                                     *)

\* the pair is compared as spelled, not uppercased
RECURSIVE MatchFrom_case_sensitive(_, _, _, _)
MatchFrom_case_sensitive(trading_pairs, base_set, quote_set, k) ==
    IF k > Len(trading_pairs) THEN <<>>
    ELSE LET pair == trading_pairs[k]
             rest == MatchFrom_case_sensitive(trading_pairs, base_set,
                                              quote_set, k + 1)
             parts == IF Contains(pair, "-") THEN SplitOnce(pair, "-")
                      ELSE SplitOnce(pair, "/")
         IN IF ~Contains(pair, "-") /\ ~Contains(pair, "/") THEN rest
            ELSE IF parts[1] \in base_set /\ parts[2] \in quote_set
                 THEN <<pair>> \o rest
                 ELSE rest

\* lines 127-139: the loop from the k-th pair on
RECURSIVE MatchFrom(_, _, _, _)
MatchFrom(trading_pairs, base_set, quote_set, k) ==
    IF k > Len(trading_pairs) THEN <<>>
    ELSE LET pair == trading_pairs[k]
             rest == MatchFrom(trading_pairs, base_set, quote_set, k + 1)
             parts == IF Contains(pair, "-") THEN SplitOnce(Upper(pair), "-")
                      ELSE SplitOnce(Upper(pair), "/")
         IN IF ~Contains(pair, "-") /\ ~Contains(pair, "/") THEN rest
            ELSE IF parts[1] \in base_set /\ parts[2] \in quote_set
                 THEN <<pair>> \o rest
                 ELSE rest

find_matching_pairs(trading_pairs, base_tokens, quote_tokens) ==
    MatchFrom(trading_pairs,
              {Upper(t) : t \in Range(base_tokens)},
              {Upper(t) : t \in Range(quote_tokens)}, 1)

----------------------------------------------------------------------------
(* Collaborator responses                                                  *)

\* get_connector_trading_pairs: what the worker returns for a response.
\* "raise" stands for an exception that is no RuntimeError (a read timeout,
\* a body that is no JSON) and leaves the function.
PairsResult(resp) ==
    CASE resp.kind = "http_error" -> [raised |-> FALSE, value |-> <<>>]
      [] resp.kind = "raise" -> [raised |-> TRUE, value |-> <<>>]
      [] resp.kind = "detail" -> [raised |-> FALSE, value |-> <<>>]
      [] resp.kind = "list" -> [raised |-> FALSE, value |-> <<>>]
      [] OTHER -> [raised |-> FALSE, value |-> resp.keys]

\* fetch_prices: what the worker returns for a response; items are the
\* (key, value) entries of the returned dict in order.  A "doc" response is
\* a JSON object: resp.items are the entries under its "prices" key when it
\* has one (resp.wrapped), else its own entries; either way they are what
\* fetch_prices returns.
PricesResult(resp) ==
    CASE resp.kind = "http_error" ->
             [raised |-> FALSE, items |-> <<<<ErrorKey, JStr>>>>]
      [] resp.kind = "raise" -> [raised |-> TRUE, items |-> <<>>]
      [] OTHER -> [raised |-> FALSE, items |-> resp.items]

HasKey(items, key) == \E i \in DOMAIN items : items[i][1] = key

----------------------------------------------------------------------------
(* Price collection: the body of the second as_completed loop              *)

Quote(connector, pair, price, bid, ask) ==
    [connector |-> connector, pair |-> pair, price |-> price,
     bid |-> bid, ask |-> ask]

\* float(x) if x else None
OptFloat(v) == IF Truthy(v) THEN Some(v[2]) ELSE None

\* lines 220-226: the price, bid and ask of one response entry
EntryPrice(price_data) ==
    IF price_data[1] = "obj"
    THEN PyOr(Get(price_data[2]), Get(price_data[3]))
    ELSE price_data
EntryBid(price_data) ==
    IF price_data[1] = "obj" THEN Get(price_data[4]) ELSE JNull
EntryAsk(price_data) ==
    IF price_data[1] = "obj" THEN Get(price_data[5]) ELSE JNull

\* zero passes: >= in place of >
PriceAccepted_nonneg(price) == price[2] >= 0

\* line 228: price is not None and float(price) > 0 (for a price float accepts)
PriceAccepted(price) == price[2] > 0

\* lines 213-235: entries k.. of one response, appended to acc in order; a
\* float() that raises leaves the loop through the except of line 236 and
\* keeps what was appended before it.
RECURSIVE ExtractFrom(_, _, _, _, _)
ExtractFrom(items, connector, requested_set, acc, k) ==
    IF k > Len(items) THEN acc
    ELSE LET pair == items[k][1]
             price_data == items[k][2]
             price == EntryPrice(price_data)
             bid == EntryBid(price_data)
             ask == EntryAsk(price_data)
             next(a) == ExtractFrom(items, connector, requested_set, a, k + 1)
         IN IF pair = ErrorKey THEN next(acc)
            ELSE IF Upper(pair) \notin requested_set THEN next(acc)
            ELSE IF price = JNull THEN next(acc)
            ELSE IF FloatRaises(price) THEN acc
            ELSE IF ~PriceAccepted(price) THEN next(acc)
            ELSE IF Truthy(bid) /\ FloatRaises(bid) THEN acc
            ELSE IF Truthy(ask) /\ FloatRaises(ask) THEN acc
            ELSE next(Append(acc, Quote(connector, pair, price[2],
                                        OptFloat(bid), OptFloat(ask))))

\* a future that raised takes the quotes collected so far with it
CollectResult_abort(acc, connector, requested_pairs, result) ==
    IF result.raised \/ HasKey(result.items, ErrorKey) THEN <<>>
    ELSE ExtractFrom(result.items, connector,
                     {Upper(p) : p \in Range(requested_pairs)}, acc, 1)

\* an entry passes when its pair was requested from any venue
CollectResult_any_venue(acc, connector, requested_pairs, result) ==
    IF result.raised THEN acc
    ELSE IF HasKey(result.items, ErrorKey) THEN acc
    ELSE ExtractFrom(result.items, connector, valid_pairs, acc, 1)

\* lines 205-237: the loop body for one completed future
CollectResult(acc, connector, requested_pairs, result) ==
    IF result.raised THEN acc
    ELSE IF HasKey(result.items, ErrorKey) THEN acc
    ELSE ExtractFrom(result.items, connector,
                     {Upper(p) : p \in Range(requested_pairs)}, acc, 1)

----------------------------------------------------------------------------
(* Opportunity derivation                                                  *)

Abs(x) == IF x < 0 THEN -x ELSE x

RECURSIVE GCD(_, _)
GCD(a, b) == IF b = 0 THEN a ELSE GCD(b, a % b)

\* the exact value n / d, d > 0, in lowest terms
Frac(n, d) ==
    LET g == GCD(Abs(n), d)
    IN [num |-> n \div g, den |-> d \div g]

FracGE(a, b) == a.num * b.den >= b.num * a.den
FracGT(a, b) == a.num * b.den > b.num * a.den

\* float("inf"): what float() gives for 1e999, "inf" or "Infinity"; it is
\* above every finite price, and arithmetic on it is IEEE's, spelled out
\* where a price enters a formula.  [num |-> 1, den |-> 0] is an infinite
\* ratio and [num |-> 0, den |-> 0] is nan.
inf == 1000000

outlier_threshold_pct == 20
min_quotes_for_filter == 3
max_workers == 10

\* list.sort(key=price): stable, ascending
RECURSIVE InsertByPrice(_, _)
InsertByPrice(sorted, q) ==
    IF sorted = <<>> THEN <<q>>
    ELSE IF sorted[Len(sorted)].price <= q.price THEN Append(sorted, q)
    ELSE Append(InsertByPrice(SubSeq(sorted, 1, Len(sorted) - 1), q),
                sorted[Len(sorted)])

RECURSIVE SortFrom(_, _, _)
SortFrom(s, acc, k) ==
    IF k > Len(s) THEN acc ELSE SortFrom(s, InsertByPrice(acc, s[k]), k + 1)

\* the quotes stay in collection order
SortByPrice_unsorted(s) == s

\* line 244
SortByPrice(s) == SortFrom(s, <<>>, 1)

\* the lower median instead of the element at len // 2
MedianPrice_lower(ps) == ps[(Len(ps) + 1) \div 2].price

\* prices[len(prices) // 2]["price"]
MedianPrice(ps) == ps[(Len(ps) \div 2) + 1].price

\* the deviation is taken relative to the quote instead of the median
WithinThreshold_of_quote(p, median_price) ==
    100 * Abs(p - median_price) <= outlier_threshold_pct * p

\* abs(p - median) / median <= 0.20; the ratio is inf for an infinite p and
\* nan for an infinite median, and neither is <= 0.20
WithinThreshold(p, median_price) ==
    /\ p # inf
    /\ median_price # inf
    /\ 100 * Abs(p - median_price) <= outlier_threshold_pct * median_price

InSeq(x, s) == \E i \in DOMAIN s : s[i] = x

\* no quote is removed
FilterPrices_unfiltered(ps) == ps

\* lines 247-256
FilterPrices(ps) ==
    IF Len(ps) >= min_quotes_for_filter
    THEN LET keep(q) == WithinThreshold(q.price, MedianPrice(ps))
         IN SelectSeq(ps, keep)
    ELSE ps

\* only the quotes above the band are reported
Outliers_above_only(ps, filtered) ==
    IF Len(ps) >= min_quotes_for_filter
    THEN LET out(q) == q.price > MedianPrice(ps) /\ ~InSeq(q, filtered)
         IN SelectSeq(ps, out)
    ELSE <<>>

\* lines 253 and 256
Outliers(ps, filtered) ==
    IF Len(ps) >= min_quotes_for_filter
    THEN LET out(q) == ~InSeq(q, filtered) IN SelectSeq(ps, out)
    ELSE <<>>

\* the spread is taken relative to the sell price
SpreadPct_of_sell(buy, sell) ==
    Frac((sell.price - buy.price) * 100, sell.price)

\* (sell - buy) / buy * 100; nan for an infinite buy price, inf for an
\* infinite sell price over a finite buy price
SpreadPct(buy, sell) ==
    IF buy.price = inf THEN [num |-> 0, den |-> 0]
    ELSE IF sell.price = inf THEN [num |-> 1, den |-> 0]
    ELSE Frac((sell.price - buy.price) * 100, buy.price)

\* an exclusive bound instead of the inclusive one
MeetsMinSpread_strict(spread, min_spread) ==
    spread.num > min_spread * spread.den

\* spread >= args.min_spread; False for nan
MeetsMinSpread(spread, min_spread) ==
    /\ spread # [num |-> 0, den |-> 0]
    /\ spread.num >= min_spread * spread.den

Opportunity(buy, sell) ==
    [buy_connector |-> buy.connector, buy_pair |-> buy.pair,
     buy_price |-> buy.price,
     sell_connector |-> sell.connector, sell_pair |-> sell.pair,
     sell_price |-> sell.price,
     spread_pct |-> SpreadPct(buy, sell),
     spread_abs |-> IF sell.price = inf THEN inf ELSE sell.price - buy.price]

\* lines 259-273: the double loop, from buy index i and sell index j
RECURSIVE EmitFrom(_, _, _, _)
EmitFrom(fp, min_spread, i, j) ==
    IF i > Len(fp) THEN <<>>
    ELSE IF j > Len(fp) THEN EmitFrom(fp, min_spread, i + 1, i + 2)
    ELSE LET rest == EmitFrom(fp, min_spread, i, j + 1)
         IN IF MeetsMinSpread(SpreadPct(fp[i], fp[j]), min_spread)
            THEN <<Opportunity(fp[i], fp[j])>> \o rest
            ELSE rest

ComputeOpportunities(fp, min_spread) == EmitFrom(fp, min_spread, 1, 2)

\* a descending sort that puts an element before its equals, as sorting
\* ascending and reversing the result would
RECURSIVE InsertBySpread_unstable(_, _)
InsertBySpread_unstable(sorted, o) ==
    IF sorted = <<>> THEN <<o>>
    ELSE IF FracGT(sorted[Len(sorted)].spread_pct, o.spread_pct)
         THEN Append(sorted, o)
    ELSE Append(InsertBySpread_unstable(SubSeq(sorted, 1, Len(sorted) - 1), o),
                sorted[Len(sorted)])

\* list.sort(key=spread_pct, reverse=True): stable, descending
RECURSIVE InsertBySpread(_, _)
InsertBySpread(sorted, o) ==
    IF sorted = <<>> THEN <<o>>
    ELSE IF FracGE(sorted[Len(sorted)].spread_pct, o.spread_pct)
         THEN Append(sorted, o)
    ELSE Append(InsertBySpread(SubSeq(sorted, 1, Len(sorted) - 1), o),
                sorted[Len(sorted)])

RECURSIVE RankFrom(_, _, _)
RankFrom(s, acc, k) ==
    IF k > Len(s) THEN acc ELSE RankFrom(s, InsertBySpread(acc, s[k]), k + 1)

\* the opportunities stay in the order the double loop emitted them
RankBySpread_unranked(s) == s

\* line 276
RankBySpread(s) == RankFrom(s, <<>>, 1)

----------------------------------------------------------------------------
(* Inputs of a run                                                         *)

\* the venues a run may scan, and every venue the collaborator knows
Venues == {"X", "Y"}
AllVenues == Venues \cup {"Z"}

MaxConnectors == 2

ConnectorLists == UNION {[1..n -> Venues] : n \in 1..MaxConnectors}

MinSpreads == {0, 2}

\* the command line: --connectors is absent (None), given empty ("") or
\* given with names, connectors being its names split on ","
ArgsChoices ==
    [connectors_opt : {"absent", "empty"}, connectors : {<<>>},
     base_tokens : {<<BTC>>}, quote_tokens : {<<USDT, USDC>>},
     min_spread : MinSpreads]
    \cup
    [connectors_opt : {"given"}, connectors : ConnectorLists,
     base_tokens : {<<BTC>>}, quote_tokens : {<<USDT, USDC>>},
     min_spread : MinSpreads]

VenuesResponses ==
    {[kind |-> k, value |-> <<>>] : k \in {"http_error", "raise", "nonlist", "list"}}
    \cup {[kind |-> "list", value |-> <<"Y">>]}

PairLists == {<<BTC_USDT>>, <<BTC_USDT, BTC_USDC>>, <<ETH_USDT, BTCUSDT>>}

PairsResponses ==
    {[kind |-> k, keys |-> <<>>] : k \in {"http_error", "raise", "detail", "list"}}
    \cup {[kind |-> "dict", keys |-> l] : l \in PairLists}

\* the values a venue gives a pair in its price document: venue X answers
\* with every shape the code distinguishes, the other venues with numbers
PriceData(v) ==
    IF v = "X"
    THEN {JNum(100), JNum(102), JNum(0), JNum(-5), JNull, JStr,
          JObj(JAbsent, JAbsent, JAbsent, JAbsent),
          JObj(JEmptyStr, JNum(100), JEmptyStr, JAbsent),
          JObj(JNum(0), JNum(105), JNum(104), JNull)}
    ELSE {JNum(100), JNum(200)}

\* the values of a second entry: for X a usable price, an unusable one and
\* one float() rejects, after any first entry
FollowData(v) ==
    IF v = "X" THEN {JNum(102), JNum(0), JStr} ELSE PriceData(v)

\* the entries of a price document: BTC-USDT and BTC-USDC, each present or
\* not; a venue other than X may also spell the pair in lower case
PriceItems(v) ==
    {<<>>}
    \cup (IF v = "X" THEN {} ELSE {<<<<btc_usdt, JNum(100)>>>>})
    \cup {<<<<k, d>>>> : k \in {BTC_USDT, BTC_USDC}, d \in PriceData(v)}
    \cup {<<<<BTC_USDT, d1>>, <<BTC_USDC, d2>>>> :
               d1 \in PriceData(v), d2 \in FollowData(v)}

PricesResponses(v) ==
    {[kind |-> k, wrapped |-> FALSE, items |-> <<>>] : k \in {"http_error", "raise"}}
    \cup {[kind |-> "doc", wrapped |-> FALSE, items |-> <<<<ErrorKey, JStr>>>>]}
    \cup {[kind |-> "doc", wrapped |-> TRUE, items |-> i] : i \in PriceItems(v)}

Unset == [kind |-> "unset"]

\* the answers a call may get from a venue whose answer is `known`, fixed
\* before the run or given to an earlier call
Answers(known, responses) == IF known = Unset THEN responses ELSE {known}

----------------------------------------------------------------------------
(* Configuration: load_env and get_api_config, called by every             *)
(* api_request, and load_env and get_config of                             *)
(* skills/hummingbot/scripts/hbot_client.py                                *)

HUMMINGBOT_API_URL == <<"H","U","M","M","I","N","G","B","O","T","_","A","P","I","_","U","R","L">>
API_USER == <<"A","P","I","_","U","S","E","R">>
API_PASS == <<"A","P","I","_","P","A","S","S">>

default_url == <<"h","t","t","p",":","/","/","l","o","c","a","l","h","o","s","t",":","8","0","0","0">>
admin == <<"a","d","m","i","n">>

\* the candidate files in the order load_env tries them
env_paths == <<"hummingbot-api/.env", "~/.hummingbot/.env", ".env">>

Whitespace == {" ", "\t"}

\* s.strip(chars): the characters of cs taken off both ends of s
StripChars(s, cs) ==
    LET keep == {i \in DOMAIN s : s[i] \notin cs}
    IN IF keep = {} THEN <<>>
       ELSE SubSeq(s, CHOOSE i \in keep : \A j \in keep : i <= j,
                      CHOOSE i \in keep : \A j \in keep : j <= i)

\* lines 40-43: the key and value a line of a .env file assigns; None for
\* a blank line, a comment and a line without "="
ParseLine(raw) ==
    LET line == StripChars(raw, Whitespace)
    IN IF line = <<>> THEN None
       ELSE IF line[1] = "#" \/ ~Contains(line, "=") THEN None
       ELSE LET kv == SplitOnce(line, "=")
                value == StripChars(kv[2], Whitespace)
            IN Some([key |-> StripChars(kv[1], Whitespace),
                     value |-> StripChars(StripChars(value, {"\""}), {"'"})])

\* the file's value replaces the one of the environment
SetDefault_override(env, key, value) == [env EXCEPT ![key] = Some(value)]

\* os.environ.setdefault(key, value)
SetDefault(env, key, value) ==
    IF env[key] = None THEN [env EXCEPT ![key] = Some(value)] ELSE env

\* lines 39-43: the lines k.. of the opened file
RECURSIVE ReadLines(_, _, _)
ReadLines(env, lines, k) ==
    IF k > Len(lines) THEN env
    ELSE LET a == ParseLine(lines[k])
         IN ReadLines(IF a = None THEN env
                      ELSE SetDefault(env, a[1].key, a[1].value),
                      lines, k + 1)

\* lines 36-44: the first existing candidate file is read, then break
RECURSIVE load_env(_, _, _)
load_env(env, files, k) ==
    IF k > Len(env_paths) THEN env
    ELSE IF files[env_paths[k]] # None
    THEN ReadLines(env, files[env_paths[k]][1], 1)
    ELSE load_env(env, files, k + 1)

\* os.environ.get(key, default)
EnvGet(env, key, default) == IF env[key] = None THEN default ELSE env[key][1]

\* lines 50-54, after load_env
get_api_config(env) ==
    [url |-> EnvGet(env, HUMMINGBOT_API_URL, default_url),
     user |-> EnvGet(env, API_USER, admin),
     password |-> EnvGet(env, API_PASS, admin)]

\* line 69: urllib.request.Request takes the URL when it has a type, a
\* non-empty text without "/" before its first ":", and raises ValueError
\* otherwise; the endpoint appended to config.url begins with "/", so the
\* type is that of config.url
RequestBuilt(config) ==
    \E i \in DOMAIN config.url :
       /\ i > 1
       /\ config.url[i] = ":"
       /\ \A j \in 1..(i - 1) : config.url[j] \notin {"/", ":"}

\* hbot_client.py: os.environ.get(key) or os.environ.get(key, default)
EnvGetOr(env, key, default) ==
    IF env[key] # None /\ env[key][1] # <<>> THEN env[key][1]
    ELSE EnvGet(env, key, default)

\* hbot_client.py get_config, after load_env
get_config(env) ==
    [url |-> EnvGet(env, HUMMINGBOT_API_URL, default_url),
     user |-> EnvGetOr(env, API_USER, admin),
     password |-> EnvGetOr(env, API_PASS, admin)]

\* .env files, line by line

\* user and password, the password in single quotes
dotenv_credentials ==
    <<<<"A","P","I","_","U","S","E","R","=","b","o","b">>,
      <<"A","P","I","_","P","A","S","S","=","'","p","w","'">>>>

\* a comment, then the user assigned twice, once with spaces and quotes
dotenv_duplicate ==
    <<<<"#"," ","A","P","I","_","U","S","E","R","=","e","v","e">>,
      <<" ","A","P","I","_","U","S","E","R"," ","="," ","\"","e","v","e","\""," ">>,
      <<"A","P","I","_","U","S","E","R","=","b","o","b">>>>

\* the URL, a blank line, a line without "=" and a value that holds "="
dotenv_url ==
    <<<<"H","U","M","M","I","N","G","B","O","T","_","A","P","I","_","U","R","L","=","h","t","t","p",":","/","/","h">>,
      <<>>,
      <<"A","P","I","_","U","S","E","R">>,
      <<"A","P","I","_","P","A","S","S","=","a","=","b">>>>

\* an empty value, an export prefix, and quotes of both kinds
dotenv_odd ==
    <<<<"A","P","I","_","U","S","E","R","=">>,
      <<"e","x","p","o","r","t"," ","A","P","I","_","U","S","E","R","=","e","v","e">>,
      <<"A","P","I","_","P","A","S","S","=","\"","'","p","w","'","\"">>>>

EnvFileContents ==
    {dotenv_credentials, dotenv_duplicate, dotenv_url, dotenv_odd, <<>>}

\* the variable names a run can meet
EnvNames ==
    {HUMMINGBOT_API_URL, API_USER, API_PASS}
    \cup {ParseLine(l)[1].key :
             l \in {m \in UNION {Range(c) : c \in EnvFileContents} :
                       ParseLine(m) # None}}

\* an environment without the three variables and a directory without
\* .env files
PlainEnviron == [k \in EnvNames |-> None]
NoFiles == [p \in Range(env_paths) |-> None]

\* the process starts with environment env and files on disk; `requested`
\* says that it has issued a request already
HostInit(env, files, requested) ==
    /\ launch_env = env
    /\ env_files = files
    /\ environ = IF requested THEN load_env(env, files, 1) ELSE env
    /\ api_config = IF requested THEN get_api_config(load_env(env, files, 1))
                    ELSE Unset

\* lines 59-60: api_request resolves the configuration before it sends
ApiRequestConfig ==
    /\ environ' = load_env(environ, env_files, 1)
    /\ api_config' = get_api_config(load_env(environ, env_files, 1))
    /\ UNCHANGED <<launch_env, env_files, steady>>

ConfigUnchanged ==
    UNCHANGED <<launch_env, env_files, environ, api_config, steady>>

----------------------------------------------------------------------------
(* Thread pool                                                             *)

\* a submitted work item: its future, and how far the worker that runs it
\* is in api_request: whether it has resolved the configuration, and whether
\* it has sent the request
Future(connector, pairs) ==
    [connector |-> connector, pairs |-> pairs, state |-> "PENDING",
     configured |-> FALSE, sent |-> FALSE, result |-> <<>>,
     yielded |-> FALSE]

Running(fs) == {i \in DOMAIN fs : fs[i].state = "RUNNING"}

\* the worker queue is first in, first out
NextPending(fs, i) ==
    /\ fs[i].state = "PENDING"
    /\ \A j \in 1..(i - 1) : fs[j].state # "PENDING"

\* a thread per submitted task
WorkerFree_unbounded(fs) == TRUE

\* a worker thread is free to take a task
WorkerFree(fs) == Cardinality(Running(fs)) < max_workers

\* the loop is left on the first future it yields
AllYielded_first(fs) == \E i \in DOMAIN fs : fs[i].yielded

\* the with block is left only when every future returned a value
AllYielded_returned(fs) ==
    \A i \in DOMAIN fs : fs[i].yielded /\ ~fs[i].result[1].raised

\* the as_completed loop has yielded every future: the with block is left
AllYielded(fs) == \A i \in DOMAIN fs : fs[i].yielded

\* a list of (connector, matching) entries instead of a dict
DictSet_append(d, key, value) == Append(d, <<key, value>>)

\* connector_pairs[connector] = matching
DictSet(d, key, value) ==
    IF \E i \in DOMAIN d : d[i][1] = key
    THEN [i \in DOMAIN d |-> IF d[i][1] = key THEN <<key, value>> ELSE d[i]]
    ELSE Append(d, <<key, value>>)

DictKeys(d) == {d[i][1] : i \in DOMAIN d}

DictGet(d, key) == d[CHOOSE i \in DOMAIN d : d[i][1] = key][2]

\* the request is sent a second time
Bump_twice(f, v) == [f EXCEPT ![v] = @ + 2]

\* api_request: one urlopen per call
Bump(f, v) == [f EXCEPT ![v] = @ + 1]

----------------------------------------------------------------------------
(* main()                                                                  *)

Init ==
    /\ pc = "get_connectors"
    /\ args \in ArgsChoices
    /\ connectors = <<>>
    /\ pair_futures = <<>>
    /\ connector_pairs = <<>>
    /\ valid_pairs = {}
    /\ price_futures = <<>>
    /\ prices = <<>>
    /\ filtered_prices = <<>>
    /\ outliers = <<>>
    /\ opportunities = <<>>
    /\ exit_code = -1
    /\ stderr = "none"
    /\ venuesResp = Unset
    /\ steady = FALSE
    /\ pairsResp = [v \in AllVenues |-> Unset]
    /\ pricesResp = [v \in AllVenues |-> Unset]
    /\ calls = [venues |-> 0,
                pairs |-> [v \in AllVenues |-> 0],
                prices |-> [v \in AllVenues |-> 0]]
    /\ HostInit(PlainEnviron, NoFiles, FALSE)

\* sys.exit(1) after a diagnostic, or an uncaught exception
Exit(code, diagnostic) ==
    /\ pc' = "exited"
    /\ exit_code' = code
    /\ stderr' = diagnostic

\* a failed discovery falls back to a default venue
AvailableConnectors_fallback(resp) ==
    IF resp.kind = "list" THEN resp.value
    ELSE IF resp.kind = "http_error" THEN <<"X">> ELSE <<>>

\* get_available_connectors: the list it returns for a response
AvailableConnectors(resp) ==
    IF resp.kind = "list" THEN resp.value ELSE <<>>

\* line 165: args.connectors is truthy (neither None nor "")
ExplicitConnectors(a) == a.connectors_opt \notin {"absent", "empty"}

\* lines 165-166
UseGivenConnectors ==
    /\ pc = "get_connectors"
    /\ ExplicitConnectors(args)
    /\ connectors' = args.connectors
    /\ pc' = "submit_pairs"
    /\ UNCHANGED <<args, pair_futures, connector_pairs, valid_pairs,
                   price_futures, prices, filtered_prices, outliers,
                   opportunities, exit_code, stderr, venuesResp, pairsResp,
                   pricesResp, calls>>
    /\ ConfigUnchanged

\* lines 167-171 with get_available_connectors; a request that cannot be
\* built is not sent, and the ValueError ends the run
DiscoverConnectors ==
    /\ pc = "get_connectors"
    /\ ~ExplicitConnectors(args)
    /\ IF ~RequestBuilt(get_api_config(load_env(environ, env_files, 1)))
       THEN /\ Exit(1, "traceback")
            /\ UNCHANGED <<connectors, venuesResp, calls>>
       ELSE \E resp \in VenuesResponses :
          /\ venuesResp' = resp
          /\ calls' = [calls EXCEPT !.venues = @ + 1]
          /\ IF resp.kind = "raise"
             THEN Exit(1, "traceback") /\ UNCHANGED connectors
             ELSE IF AvailableConnectors(resp) = <<>>
             THEN Exit(1, "no_connectors") /\ UNCHANGED connectors
             ELSE /\ connectors' = AvailableConnectors(resp)
                  /\ pc' = "submit_pairs"
                  /\ UNCHANGED <<exit_code, stderr>>
    /\ UNCHANGED <<args, pair_futures, connector_pairs, valid_pairs,
                   price_futures, prices, filtered_prices, outliers,
                   opportunities, pairsResp, pricesResp>>
    /\ ApiRequestConfig

\* line 176: one executor.submit of the comprehension; the with block
\* goes on to the as_completed loop after the last one
SubmitPairFetches ==
    /\ pc = "submit_pairs"
    /\ LET k == Len(pair_futures) + 1
       IN /\ pair_futures' = Append(pair_futures, Future(connectors[k], <<>>))
          /\ pc' = IF k = Len(connectors) THEN "resolve" ELSE "submit_pairs"
    /\ UNCHANGED <<args, connectors, connector_pairs, valid_pairs,
                   price_futures, prices, filtered_prices, outliers,
                   opportunities, exit_code, stderr, venuesResp, pairsResp,
                   pricesResp, calls>>
    /\ ConfigUnchanged

\* a worker thread takes the oldest queued work item: its future is RUNNING
StartPairFetch ==
    /\ WorkerFree(pair_futures)
    /\ \E i \in DOMAIN pair_futures :
          /\ NextPending(pair_futures, i)
          /\ pair_futures' = [pair_futures EXCEPT ![i].state = "RUNNING"]
    /\ UNCHANGED <<pc, args, connectors, connector_pairs, valid_pairs,
                   price_futures, prices, filtered_prices, outliers,
                   opportunities, exit_code, stderr, venuesResp, pairsResp,
                   pricesResp, calls>>
    /\ ConfigUnchanged

\* lines 96-97 and 59-60: the worker of get_connector_trading_pairs(c)
\* enters api_request, which resolves the configuration
ConfigurePairFetch ==
    /\ \E i \in Running(pair_futures) :
          /\ ~pair_futures[i].configured
          /\ pair_futures' = [pair_futures EXCEPT ![i].configured = TRUE]
    /\ UNCHANGED <<pc, args, connectors, connector_pairs, valid_pairs,
                   price_futures, prices, filtered_prices, outliers,
                   opportunities, exit_code, stderr, venuesResp, pairsResp,
                   pricesResp, calls>>
    /\ ApiRequestConfig

\* lines 62-72: the worker builds the request and sends it; a request that
\* cannot be built is not sent, and get_connector_trading_pairs raises the
\* ValueError
RequestPairs ==
    /\ \E i \in Running(pair_futures) :
          /\ pair_futures[i].configured
          /\ ~pair_futures[i].sent
          /\ IF RequestBuilt(api_config)
             THEN /\ pair_futures' = [pair_futures EXCEPT ![i].sent = TRUE]
                  /\ calls' = [calls EXCEPT
                                  !.pairs = Bump(@, pair_futures[i].connector)]
             ELSE /\ pair_futures' =
                        [pair_futures EXCEPT
                            ![i].state = "FINISHED",
                            ![i].result = <<[raised |-> TRUE, value |-> <<>>]>>]
                  /\ UNCHANGED calls
    /\ UNCHANGED <<pc, args, connectors, connector_pairs, valid_pairs,
                   price_futures, prices, filtered_prices, outliers,
                   opportunities, exit_code, stderr, venuesResp, pairsResp,
                   pricesResp>>
    /\ ConfigUnchanged

\* the request is answered and get_connector_trading_pairs returns or
\* raises; a steady collaborator gives the venue's answer, any other
\* answers each request as it pleases, a second request to a venue too;
\* the calls in flight end in any order
FinishPairFetch ==
    /\ \E i \in Running(pair_futures) :
          LET c == pair_futures[i].connector IN
          /\ pair_futures[i].sent
          /\ \E resp \in (IF steady THEN {pairsResp[c]} ELSE PairsResponses) :
                /\ pair_futures' = [pair_futures EXCEPT
                                       ![i].state = "FINISHED",
                                       ![i].result = <<PairsResult(resp)>>]
    /\ UNCHANGED <<pc, args, connectors, connector_pairs, valid_pairs,
                   price_futures, prices, filtered_prices, outliers,
                   opportunities, exit_code, stderr, venuesResp, pairsResp,
                   pricesResp, calls>>
    /\ ConfigUnchanged

\* a future that raised empties the mapping
ResolveResult_abort(cp, connector, result, a) ==
    IF result.raised THEN <<>>
    ELSE LET matching == find_matching_pairs(result.value, a.base_tokens,
                                             a.quote_tokens)
         IN IF matching # <<>> THEN DictSet(cp, connector, matching) ELSE cp

\* the matched list is stored without the test that it is non-empty
ResolveResult_keep_empty(cp, connector, result, a) ==
    IF result.raised THEN cp
    ELSE DictSet(cp, connector,
                 find_matching_pairs(result.value, a.base_tokens, a.quote_tokens))

\* lines 178-185: what one completed future does to connector_pairs
ResolveResult(cp, connector, result, a) ==
    IF result.raised THEN cp
    ELSE LET matching == find_matching_pairs(result.value, a.base_tokens,
                                             a.quote_tokens)
         IN IF matching # <<>> THEN DictSet(cp, connector, matching) ELSE cp

\* lines 177-185: one iteration of the first as_completed loop
ConsumePairs ==
    /\ pc = "resolve"
    /\ \E i \in DOMAIN pair_futures :
          /\ pair_futures[i].state = "FINISHED"
          /\ ~pair_futures[i].yielded
          /\ connector_pairs' = ResolveResult(connector_pairs,
                                    pair_futures[i].connector,
                                    pair_futures[i].result[1], args)
          /\ pair_futures' = [pair_futures EXCEPT ![i].yielded = TRUE]
    /\ UNCHANGED <<pc, args, connectors, valid_pairs, price_futures, prices,
                   filtered_prices, outliers, opportunities, exit_code,
                   stderr, venuesResp, pairsResp, pricesResp, calls>>
    /\ ConfigUnchanged

\* lines 195-197
ValidPairs(cp) == UNION {{Upper(p) : p \in Range(cp[i][2])} : i \in DOMAIN cp}

\* fewer than two venues with a matched pair is taken as none
NoPairs_fewer_than_two(cp) == Len(cp) < 2

\* line 187: not connector_pairs
NoPairs(cp) == cp = <<>>

\* lines 187-197, after the first pool is shut down
CheckPairs ==
    /\ pc = "resolve"
    /\ AllYielded(pair_futures)
    /\ IF NoPairs(connector_pairs)
       THEN Exit(1, "no_pairs") /\ UNCHANGED valid_pairs
       ELSE /\ valid_pairs' = ValidPairs(connector_pairs)
            /\ pc' = "submit_prices"
            /\ UNCHANGED <<exit_code, stderr>>
    /\ UNCHANGED <<args, connectors, pair_futures, connector_pairs,
                   price_futures, prices, filtered_prices, outliers,
                   opportunities, venuesResp, pairsResp, pricesResp, calls>>
    /\ ConfigUnchanged

\* lines 200-203: one executor.submit of the comprehension, over the
\* mapping in insertion order; when the comprehension ends the name futures
\* is bound to the price futures, and the pair-list futures it held are gone
SubmitPriceFetches ==
    /\ pc = "submit_prices"
    /\ LET k == Len(price_futures) + 1
       IN /\ price_futures' = Append(price_futures,
                                     Future(connector_pairs[k][1],
                                            connector_pairs[k][2]))
          /\ pair_futures' = IF k = Len(connector_pairs) THEN <<>>
                             ELSE pair_futures
          /\ pc' = IF k = Len(connector_pairs) THEN "collect"
                   ELSE "submit_prices"
    /\ UNCHANGED <<args, connectors, connector_pairs,
                   valid_pairs, prices, filtered_prices, outliers,
                   opportunities, exit_code, stderr, venuesResp, pairsResp,
                   pricesResp, calls>>
    /\ ConfigUnchanged

\* a worker thread takes the oldest queued work item: its future is RUNNING
StartPriceFetch ==
    /\ WorkerFree(price_futures)
    /\ \E i \in DOMAIN price_futures :
          /\ NextPending(price_futures, i)
          /\ price_futures' = [price_futures EXCEPT ![i].state = "RUNNING"]
    /\ UNCHANGED <<pc, args, connectors, pair_futures, connector_pairs,
                   valid_pairs, prices, filtered_prices, outliers,
                   opportunities, exit_code, stderr, venuesResp, pairsResp,
                   pricesResp, calls>>
    /\ ConfigUnchanged

\* lines 108-111 and 59-60: the worker of fetch_prices(connector, pairs)
\* enters api_request, which resolves the configuration
ConfigurePriceFetch ==
    /\ \E i \in Running(price_futures) :
          /\ ~price_futures[i].configured
          /\ price_futures' = [price_futures EXCEPT ![i].configured = TRUE]
    /\ UNCHANGED <<pc, args, connectors, pair_futures, connector_pairs,
                   valid_pairs, prices, filtered_prices, outliers,
                   opportunities, exit_code, stderr, venuesResp, pairsResp,
                   pricesResp, calls>>
    /\ ApiRequestConfig

\* lines 62-72: the worker builds the request and sends it; a request that
\* cannot be built is not sent, and fetch_prices raises the ValueError
RequestPrices ==
    /\ \E i \in Running(price_futures) :
          /\ price_futures[i].configured
          /\ ~price_futures[i].sent
          /\ IF RequestBuilt(api_config)
             THEN /\ price_futures' = [price_futures EXCEPT ![i].sent = TRUE]
                  /\ calls' = [calls EXCEPT
                                  !.prices = Bump(@, price_futures[i].connector)]
             ELSE /\ price_futures' =
                        [price_futures EXCEPT
                            ![i].state = "FINISHED",
                            ![i].result = <<[raised |-> TRUE, items |-> <<>>]>>]
                  /\ UNCHANGED calls
    /\ UNCHANGED <<pc, args, connectors, pair_futures, connector_pairs,
                   valid_pairs, prices, filtered_prices, outliers,
                   opportunities, exit_code, stderr, venuesResp, pairsResp,
                   pricesResp>>
    /\ ConfigUnchanged

\* the request is answered and fetch_prices returns or raises; a venue is
\* asked for prices once in a run; the calls in flight end in any order
FinishPriceFetch ==
    /\ \E i \in Running(price_futures) :
          LET c == price_futures[i].connector IN
          /\ price_futures[i].sent
          /\ \E resp \in Answers(pricesResp[c], PricesResponses(c)) :
                /\ pricesResp' = [pricesResp EXCEPT ![c] = resp]
                /\ price_futures' = [price_futures EXCEPT
                                        ![i].state = "FINISHED",
                                        ![i].result = <<PricesResult(resp)>>]
    /\ UNCHANGED <<pc, args, connectors, pair_futures, connector_pairs,
                   valid_pairs, prices, filtered_prices, outliers,
                   opportunities, exit_code, stderr, venuesResp, pairsResp,
                   calls>>
    /\ ConfigUnchanged

\* lines 204-237: one iteration of the second as_completed loop
ConsumePrices ==
    /\ pc = "collect"
    /\ \E i \in DOMAIN price_futures :
          /\ price_futures[i].state = "FINISHED"
          /\ ~price_futures[i].yielded
          /\ prices' = CollectResult(prices, price_futures[i].connector,
                                     price_futures[i].pairs,
                                     price_futures[i].result[1])
          /\ price_futures' = [price_futures EXCEPT ![i].yielded = TRUE]
    /\ UNCHANGED <<pc, args, connectors, pair_futures, connector_pairs,
                   valid_pairs, filtered_prices, outliers, opportunities,
                   exit_code, stderr, venuesResp, pairsResp, pricesResp, calls>>
    /\ ConfigUnchanged

\* the check for an empty quote list is missing
NoPrices_unchecked(ps) == FALSE

\* line 239: not prices
NoPrices(ps) == ps = <<>>

\* lines 239-241, after the second pool is shut down
CheckPrices ==
    /\ pc = "collect"
    /\ AllYielded(price_futures)
    /\ IF NoPrices(prices)
       THEN Exit(1, "no_prices")
       ELSE pc' = "sort" /\ UNCHANGED <<exit_code, stderr>>
    /\ UNCHANGED <<args, connectors, pair_futures, connector_pairs,
                   valid_pairs, price_futures, prices, filtered_prices,
                   outliers, opportunities, venuesResp, pairsResp, pricesResp,
                   calls>>
    /\ ConfigUnchanged

\* line 244
SortPrices ==
    /\ pc = "sort"
    /\ prices' = SortByPrice(prices)
    /\ pc' = "filter"
    /\ UNCHANGED <<args, connectors, pair_futures, connector_pairs,
                   valid_pairs, price_futures, filtered_prices, outliers,
                   opportunities, exit_code, stderr, venuesResp, pairsResp,
                   pricesResp, calls>>
    /\ ConfigUnchanged

\* lines 247-256
FilterOutliers ==
    /\ pc = "filter"
    /\ filtered_prices' = FilterPrices(prices)
    /\ outliers' = Outliers(prices, FilterPrices(prices))
    /\ pc' = "spread"
    /\ UNCHANGED <<args, connectors, pair_futures, connector_pairs,
                   valid_pairs, price_futures, prices, opportunities,
                   exit_code, stderr, venuesResp, pairsResp, pricesResp, calls>>
    /\ ConfigUnchanged

\* lines 259-273
EmitOpportunities ==
    /\ pc = "spread"
    /\ opportunities' = ComputeOpportunities(filtered_prices, args.min_spread)
    /\ pc' = "rank"
    /\ UNCHANGED <<args, connectors, pair_futures, connector_pairs,
                   valid_pairs, price_futures, prices, filtered_prices,
                   outliers, exit_code, stderr, venuesResp, pairsResp,
                   pricesResp, calls>>
    /\ ConfigUnchanged

\* line 276
RankOpportunities ==
    /\ pc = "rank"
    /\ opportunities' = RankBySpread(opportunities)
    /\ pc' = "output"
    /\ UNCHANGED <<args, connectors, pair_futures, connector_pairs,
                   valid_pairs, price_futures, prices, filtered_prices,
                   outliers, exit_code, stderr, venuesResp, pairsResp,
                   pricesResp, calls>>
    /\ ConfigUnchanged

\* first n elements: s[:n]
Take(s, n) == SubSeq(s, 1, IF Len(s) < n THEN Len(s) ELSE n)

max_json_opportunities == 20

\* lines 280-286: the document of --json (base_tokens and quote_tokens are
\* those of args)
JsonDocument(fp, out, opps) ==
    [prices |-> fp, outliers |-> out,
     opportunities |-> Take(opps, max_json_opportunities)]

\* a report without opportunities counts as a failed run
ExitStatus_no_opportunities(opps) == IF opps = <<>> THEN 1 ELSE 0

\* lines 321-325: main() returns whatever the opportunity list; the
\* interpreter exits with status 0
ExitStatus(opps) == 0

\* lines 279-321: the report is printed and main() returns
Output ==
    /\ pc = "output"
    /\ pc' = "exited"
    /\ exit_code' = ExitStatus(opportunities)
    /\ UNCHANGED <<args, connectors, pair_futures, connector_pairs,
                   valid_pairs, price_futures, prices, filtered_prices,
                   outliers, opportunities, stderr, venuesResp, pairsResp,
                   pricesResp, calls>>
    /\ ConfigUnchanged

Next ==
    \/ UseGivenConnectors
    \/ DiscoverConnectors
    \/ SubmitPairFetches
    \/ StartPairFetch
    \/ ConfigurePairFetch
    \/ RequestPairs
    \/ FinishPairFetch
    \/ ConsumePairs
    \/ CheckPairs
    \/ SubmitPriceFetches
    \/ StartPriceFetch
    \/ ConfigurePriceFetch
    \/ RequestPrices
    \/ FinishPriceFetch
    \/ ConsumePrices
    \/ CheckPrices
    \/ SortPrices
    \/ FilterOutliers
    \/ EmitOpportunities
    \/ RankOpportunities
    \/ Output

Spec == Init /\ [][Next]_vars

----------------------------------------------------------------------------
(* The derivation stage on its own: main() at line 243, the quote list     *)
(* drawn from a wider price domain than the collaborators of Spec give.    *)

MaxQuotes == 4

DerivePrices == {100, 101, 102, 105, 120, 121, 1000}

\* --min-spread: the default 0.0, a positive and a negative threshold
DeriveMinSpreads == MinSpreads \cup {-1}

DeriveVenueSeq == <<"X", "Y", "Z">>

\* the i-th collected quote: two matched pairs per venue, venue by venue
SlotVenue(i) == DeriveVenueSeq[((i - 1) \div 2) + 1]
SlotPair(i) == IF i % 2 = 1 THEN BTC_USDT ELSE BTC_USDC

CollectedQuotes(f) ==
    [i \in DOMAIN f |-> Quote(SlotVenue(i), SlotPair(i), f[i], None, None)]

\* the state of main() after collection when venue k answered f for its pairs
SlotPairs(k, n) == IF 2 * k <= n THEN <<BTC_USDT, BTC_USDC>> ELSE <<BTC_USDT>>
SlotItems(k, f) ==
    [j \in 1..Len(SlotPairs(k, Len(f))) |->
        <<SlotPair(2 * k - 2 + j), JNum(f[2 * k - 2 + j])>>]
Done(fut, result) ==
    [fut EXCEPT !.state = "FINISHED", !.configured = TRUE, !.sent = TRUE,
                !.result = <<result>>, !.yielded = TRUE]

\* main() reaching line 243 with the prices f collected and --min-spread ms
DeriveState(f, ms) ==
       LET n == Len(f)
           nv == (n + 1) \div 2
           cs == SubSeq(DeriveVenueSeq, 1, nv)
           k(v) == CHOOSE i \in DOMAIN DeriveVenueSeq : DeriveVenueSeq[i] = v
           pr == [v \in AllVenues |->
                    IF v \in Range(cs)
                    THEN [kind |-> "dict", keys |-> SlotPairs(k(v), n)]
                    ELSE Unset]
           qr == [v \in AllVenues |->
                    IF v \in Range(cs)
                    THEN [kind |-> "doc", wrapped |-> TRUE,
                          items |-> SlotItems(k(v), f)]
                    ELSE Unset]
       IN
       /\ pc = "sort"
       /\ args = [connectors_opt |-> "given", connectors |-> cs, base_tokens |-> <<BTC>>,
                  quote_tokens |-> <<USDT, USDC>>, min_spread |-> ms]
       /\ connectors = cs
       /\ pair_futures = <<>>
       /\ connector_pairs = [i \in 1..nv |-> <<cs[i], SlotPairs(i, n)>>]
       /\ valid_pairs = ValidPairs([i \in 1..nv |-> <<cs[i], SlotPairs(i, n)>>])
       /\ price_futures = [i \in 1..nv |->
                             Done(Future(cs[i], SlotPairs(i, n)),
                                  PricesResult(qr[cs[i]]))]
       /\ prices = CollectedQuotes(f)
       /\ filtered_prices = <<>>
       /\ outliers = <<>>
       /\ opportunities = <<>>
       /\ exit_code = -1
       /\ stderr = "none"
       /\ venuesResp = Unset
       /\ steady = TRUE
       /\ pairsResp = pr
       /\ pricesResp = qr
       /\ calls = [venues |-> 0,
                   pairs |-> [v \in AllVenues |-> IF v \in Range(cs) THEN 1 ELSE 0],
                   prices |-> [v \in AllVenues |-> IF v \in Range(cs) THEN 1 ELSE 0]]
       /\ HostInit(PlainEnviron, NoFiles, TRUE)

InitDerive ==
    \E n \in 1..MaxQuotes : \E f \in [1..n -> DerivePrices] :
    \E ms \in DeriveMinSpreads : DeriveState(f, ms)

NextDerive ==
    \/ SortPrices
    \/ FilterOutliers
    \/ EmitOpportunities
    \/ RankOpportunities
    \/ Output

SpecDerive == InitDerive /\ [][NextDerive]_vars

----------------------------------------------------------------------------
(* The derivation stage with prices that are not finite: line 228 accepts  *)
(* float("inf"), which is > 0.                                             *)

InitNonFinite ==
    \E n \in 1..MaxQuotes : \E f \in [1..n -> {100, 101, inf}] :
    \E ms \in DeriveMinSpreads : DeriveState(f, ms)

SpecNonFinite == InitNonFinite /\ [][NextDerive]_vars

----------------------------------------------------------------------------
(* Pair resolution of one venue on its own: main() at line 177 with the    *)
(* venue's pair-list fetch finished, pair strings and aliases drawn from   *)
(* spellings the collaborators of Spec do not give.                        *)

MaxPairs == 2

MatchPairStrings ==
    {btc_usdt, BTC_USDT, ETH_slash_USDC, ETH_USDC, ETHUSDC,
     <<"U","S","D","T","-","B","T","C">>,
     <<"A","/","B","-","U","S","D","T">>}

MatchPairLists == UNION {[1..n -> MatchPairStrings] : n \in 0..MaxPairs}

MatchBaseAliases == {<<BTC>>, <<btc>>, <<BTC, ETH>>, <<ETH, A_slash_B>>}
MatchQuoteAliases == {<<USDT>>, <<usdt, USDC>>, <<USDC>>}

InitMatch ==
    \E l \in MatchPairLists :
    \E b \in MatchBaseAliases : \E q \in MatchQuoteAliases :
       LET resp == [kind |-> "dict", keys |-> l] IN
       /\ pc = "resolve"
       /\ args = [connectors_opt |-> "given", connectors |-> <<"X">>,
                  base_tokens |-> b, quote_tokens |-> q, min_spread |-> 0]
       /\ connectors = <<"X">>
       /\ pair_futures = <<[Future("X", <<>>) EXCEPT
                               !.state = "FINISHED",
                               !.configured = TRUE,
                               !.sent = TRUE,
                               !.result = <<PairsResult(resp)>>]>>
       /\ connector_pairs = <<>>
       /\ valid_pairs = {}
       /\ price_futures = <<>>
       /\ prices = <<>>
       /\ filtered_prices = <<>>
       /\ outliers = <<>>
       /\ opportunities = <<>>
       /\ exit_code = -1
       /\ stderr = "none"
       /\ venuesResp = Unset
       /\ steady = TRUE
       /\ pairsResp = [v \in AllVenues |-> IF v = "X" THEN resp ELSE Unset]
       /\ pricesResp = [v \in AllVenues |-> Unset]
       /\ calls = [venues |-> 0,
                   pairs |-> [v \in AllVenues |-> IF v = "X" THEN 1 ELSE 0],
                   prices |-> [v \in AllVenues |-> 0]]
       /\ HostInit(PlainEnviron, NoFiles, TRUE)

NextMatch ==
    \/ ConsumePairs
    \/ CheckPairs

SpecMatch == InitMatch /\ [][NextMatch]_vars

----------------------------------------------------------------------------
(* The two executors under more venues than workers: main() inside the    *)
(* comprehension of line 176, with --connectors naming MaxPoolTasks        *)
(* venues, and inside that of lines 200-203 with as many venues in the     *)
(* mapping.  Every worker has a request in flight, the main thread is      *)
(* about to submit the last venue, and the venues submitted before the     *)
(* ones in flight have been answered.  The calls in flight end in any      *)
(* order.  The venues answer each in its own way: with an HTTP error, a    *)
(* failure api_request lets through, an error document, a document of      *)
(* another shape, a document without a matching pair or price, and two of  *)
(* them with a matching pair and a usable price.                           *)

MaxPoolTasks == 11

PoolVenueSeq == <<"X", "Y", "Z", "A", "B", "C", "D", "E", "F", "G", "H", "I", "J">>

InitPool ==
    \E stage \in {"pairs", "prices"} :
       LET cs == SubSeq(PoolVenueSeq, 1, MaxPoolTasks)
           early == MaxPoolTasks - 1 - max_workers
           k(v) == CHOOSE i \in DOMAIN cs : cs[i] = v
           scanned(v) == v \in Range(cs)
           sent(v) == scanned(v) /\ k(v) < MaxPoolTasks
           pairsAnswer(v) ==
               CASE k(v) >= MaxPoolTasks - 1 ->
                        [kind |-> "dict", keys |-> <<BTC_USDT>>]
                 [] k(v) % 5 = 1 -> [kind |-> "http_error", keys |-> <<>>]
                 [] k(v) % 5 = 2 -> [kind |-> "raise", keys |-> <<>>]
                 [] k(v) % 5 = 3 -> [kind |-> "detail", keys |-> <<>>]
                 [] k(v) % 5 = 4 -> [kind |-> "list", keys |-> <<>>]
                 [] OTHER -> [kind |-> "dict", keys |-> <<ETH_USDT, BTCUSDT>>]
           pricesAnswer(v) ==
               CASE k(v) = MaxPoolTasks ->
                        [kind |-> "doc", wrapped |-> TRUE,
                         items |-> <<<<BTC_USDT, JNum(200)>>>>]
                 [] k(v) = MaxPoolTasks - 1 ->
                        [kind |-> "doc", wrapped |-> TRUE,
                         items |-> <<<<BTC_USDT, JNum(100)>>>>]
                 [] k(v) % 5 = 1 ->
                        [kind |-> "http_error", wrapped |-> FALSE,
                         items |-> <<>>]
                 [] k(v) % 5 = 2 ->
                        [kind |-> "raise", wrapped |-> FALSE, items |-> <<>>]
                 [] k(v) % 5 = 3 ->
                        [kind |-> "doc", wrapped |-> FALSE,
                         items |-> <<<<ErrorKey, JStr>>>>]
                 [] k(v) % 5 = 4 ->
                        [kind |-> "doc", wrapped |-> TRUE, items |-> <<>>]
                 [] OTHER ->
                        [kind |-> "doc", wrapped |-> TRUE,
                         items |-> <<<<BTC_USDC, JNum(100)>>>>]
           cp == [i \in DOMAIN cs |-> <<cs[i], <<BTC_USDT>>>>]
           listed == [kind |-> "dict", keys |-> <<BTC_USDT>>]
           InFlightFuture(c, pairs) ==
               [Future(c, pairs) EXCEPT !.state = "RUNNING",
                                        !.configured = TRUE, !.sent = TRUE]
           Answered(c, pairs, result) ==
               [InFlightFuture(c, pairs) EXCEPT !.state = "FINISHED",
                                                !.result = <<result>>]
           Submitted(pairs, answer(_)) ==
               [i \in 1..(MaxPoolTasks - 1) |->
                   IF i <= early THEN Answered(cs[i], pairs, answer(cs[i]))
                   ELSE InFlightFuture(cs[i], pairs)]
           pairsDone(v) == PairsResult(pairsAnswer(v))
           pricesDone(v) == PricesResult(pricesAnswer(v))
       IN
       /\ pc = IF stage = "pairs" THEN "submit_pairs" ELSE "submit_prices"
       /\ args = [connectors_opt |-> "given", connectors |-> cs,
                  base_tokens |-> <<BTC>>, quote_tokens |-> <<USDT, USDC>>,
                  min_spread |-> 0]
       /\ connectors = cs
       /\ pair_futures =
             IF stage = "pairs"
             THEN Submitted(<<>>, pairsDone)
             ELSE [i \in DOMAIN cs |->
                     Done(Future(cs[i], <<>>), PairsResult(listed))]
       /\ connector_pairs = IF stage = "pairs" THEN <<>> ELSE cp
       /\ valid_pairs = IF stage = "pairs" THEN {} ELSE ValidPairs(cp)
       /\ price_futures =
             IF stage = "pairs" THEN <<>>
             ELSE Submitted(<<BTC_USDT>>, pricesDone)
       /\ prices = <<>>
       /\ filtered_prices = <<>>
       /\ outliers = <<>>
       /\ opportunities = <<>>
       /\ exit_code = -1
       /\ stderr = "none"
       /\ venuesResp = Unset
       /\ steady = TRUE
       /\ pairsResp = [v \in Range(PoolVenueSeq) |->
                         IF ~scanned(v) THEN Unset
                         ELSE IF stage = "pairs" THEN pairsAnswer(v)
                         ELSE listed]
       /\ pricesResp = [v \in Range(PoolVenueSeq) |->
                          IF scanned(v) THEN pricesAnswer(v) ELSE Unset]
       /\ calls = [venues |-> 0,
                   pairs |-> [v \in Range(PoolVenueSeq) |->
                                IF stage = "prices" THEN (IF scanned(v) THEN 1 ELSE 0)
                                ELSE IF sent(v) THEN 1 ELSE 0],
                   prices |-> [v \in Range(PoolVenueSeq) |->
                                 IF stage = "prices" /\ sent(v) THEN 1 ELSE 0]]
       /\ HostInit(PlainEnviron, NoFiles, TRUE)

NextPool ==
    \/ SubmitPairFetches
    \/ StartPairFetch
    \/ ConfigurePairFetch
    \/ RequestPairs
    \/ FinishPairFetch
    \/ ConsumePairs
    \/ CheckPairs
    \/ SubmitPriceFetches
    \/ StartPriceFetch
    \/ ConfigurePriceFetch
    \/ RequestPrices
    \/ FinishPriceFetch
    \/ ConsumePrices
    \/ CheckPrices
    \/ SortPrices
    \/ FilterOutliers
    \/ EmitOpportunities
    \/ RankOpportunities
    \/ Output

\* a step of a worker thread of either executor
WorkerStep ==
    \/ StartPairFetch
    \/ ConfigurePairFetch
    \/ RequestPairs
    \/ FinishPairFetch
    \/ StartPriceFetch
    \/ ConfigurePriceFetch
    \/ RequestPrices
    \/ FinishPriceFetch

\* the worker threads are scheduled: while one of them can take a step, an
\* idle worker taking queued work or a request ending, by an answer or by
\* the timeout of 15 seconds, some worker step is taken
PoolFairness == WF_vars(WorkerStep)

SpecPool == InitPool /\ [][NextPool]_vars /\ PoolFairness

----------------------------------------------------------------------------
(* End-to-end scenarios: the whole of main() with --connectors given and   *)
(* collaborators whose answers are fixed before the run.  Scenario A has   *)
(* two venues that list one matched pair each under different quote        *)
(* aliases, scenario B three venues that quote the same pair, one of them  *)
(* far off.                                                                *)

\* a price as the collaborator may shape it: a bare number or an object
PriceShapes(p) == {JNum(p), JObj(JNum(p), JAbsent, JAbsent, JAbsent),
                   JObj(JAbsent, JNum(p), JAbsent, JAbsent)}

ScenarioA ==
    {[connectors |-> cs, min_spread |-> 0,
      pairs |-> [v \in AllVenues |->
                   IF v = "X" THEN l
                   ELSE IF v = "Y" THEN <<BTC_USDC>> ELSE <<>>],
      items |-> [v \in AllVenues |->
                   IF v = "X" THEN <<<<BTC_USDT, d>>>>
                   ELSE IF v = "Y" THEN <<<<BTC_USDC, JNum(50500)>>>> ELSE <<>>]] :
        cs \in {<<"X", "Y">>, <<"Y", "X">>},
        l \in {<<BTC_USDT>>, <<ETH_USDT, BTC_USDT>>},
        d \in PriceShapes(50000)}

ScenarioB ==
    {[connectors |-> <<"X", "Y", "Z">>, min_spread |-> ms,
      pairs |-> [v \in AllVenues |-> <<BTC_USDT>>],
      items |-> [v \in AllVenues |->
                   <<<<BTC_USDT, JNum(IF v = far THEN 1000 ELSE 100)>>>>]] :
        ms \in DeriveMinSpreads, far \in AllVenues}

InitScenario ==
    \E sc \in ScenarioA \cup ScenarioB :
       /\ pc = "get_connectors"
       /\ args = [connectors_opt |-> "given", connectors |-> sc.connectors,
                  base_tokens |-> <<BTC>>, quote_tokens |-> <<USDT, USDC>>,
                  min_spread |-> sc.min_spread]
       /\ connectors = <<>>
       /\ pair_futures = <<>>
       /\ connector_pairs = <<>>
       /\ valid_pairs = {}
       /\ price_futures = <<>>
       /\ prices = <<>>
       /\ filtered_prices = <<>>
       /\ outliers = <<>>
       /\ opportunities = <<>>
       /\ exit_code = -1
       /\ stderr = "none"
       /\ venuesResp = Unset
       /\ steady = TRUE
       /\ pairsResp = [v \in AllVenues |->
                         IF v \in Range(sc.connectors)
                         THEN [kind |-> "dict", keys |-> sc.pairs[v]]
                         ELSE Unset]
       /\ pricesResp = [v \in AllVenues |->
                          IF v \in Range(sc.connectors)
                          THEN [kind |-> "doc", wrapped |-> TRUE,
                                items |-> sc.items[v]]
                          ELSE Unset]
       /\ calls = [venues |-> 0,
                   pairs |-> [v \in AllVenues |-> 0],
                   prices |-> [v \in AllVenues |-> 0]]
       /\ HostInit(PlainEnviron, NoFiles, FALSE)

\* main() with --connectors given: get_available_connectors is not called
NextScenario ==
    \/ UseGivenConnectors
    \/ SubmitPairFetches
    \/ StartPairFetch
    \/ ConfigurePairFetch
    \/ RequestPairs
    \/ FinishPairFetch
    \/ ConsumePairs
    \/ CheckPairs
    \/ SubmitPriceFetches
    \/ StartPriceFetch
    \/ ConfigurePriceFetch
    \/ RequestPrices
    \/ FinishPriceFetch
    \/ ConsumePrices
    \/ CheckPrices
    \/ SortPrices
    \/ FilterOutliers
    \/ EmitOpportunities
    \/ RankOpportunities
    \/ Output

SpecScenario == InitScenario /\ [][NextScenario]_vars

----------------------------------------------------------------------------
(* Configuration resolution on its own: a process started with any of the  *)
(* three variables set or not and any of the candidate files on disk, up   *)
(* to its first requests.  The process is either find_arb_opps.py, with    *)
(* or without --connectors, or a script of skills/hummingbot that opens    *)
(* hbot_client.client().                                                   *)

\* a variable of the launch environment: not set, set, or set to ""
LaunchValues == {None, Some(<<"e","n","v">>), Some(<<>>)}

\* the URL may also be set to one a request can be built from
LaunchEnvirons ==
    {[k \in EnvNames |->
         IF k = HUMMINGBOT_API_URL THEN u
         ELSE IF k = API_USER THEN n
         ELSE IF k = API_PASS THEN p ELSE None] :
       u \in LaunchValues \cup {Some(<<"h","t","t","p",":","/","/","e">>)},
       n \in LaunchValues, p \in LaunchValues}

InitConfig ==
    \E env \in LaunchEnvirons :
    \E files \in [Range(env_paths) ->
                     {None} \cup {Some(c) : c \in EnvFileContents}] :
    \E program \in {"get_connectors", "hbot_client"} :
    \E given \in (IF program = "hbot_client" THEN {FALSE} ELSE BOOLEAN) :
       /\ pc = program
       /\ args = [connectors_opt |-> IF given THEN "given" ELSE "absent",
                  connectors |-> IF given THEN <<"X">> ELSE <<>>,
                  base_tokens |-> <<BTC>>, quote_tokens |-> <<USDT, USDC>>,
                  min_spread |-> 0]
       /\ connectors = <<>>
       /\ pair_futures = <<>>
       /\ connector_pairs = <<>>
       /\ valid_pairs = {}
       /\ price_futures = <<>>
       /\ prices = <<>>
       /\ filtered_prices = <<>>
       /\ outliers = <<>>
       /\ opportunities = <<>>
       /\ exit_code = -1
       /\ stderr = "none"
       /\ venuesResp = Unset
       /\ steady = FALSE
       /\ pairsResp = [v \in AllVenues |-> Unset]
       /\ pricesResp = [v \in AllVenues |-> Unset]
       /\ calls = [venues |-> 0,
                   pairs |-> [v \in AllVenues |-> 0],
                   prices |-> [v \in AllVenues |-> 0]]
       /\ HostInit(env, files, FALSE)

\* hbot_client.py client(): get_config resolves the configuration
GetConfig ==
    /\ pc = "hbot_client"
    /\ environ' = load_env(environ, env_files, 1)
    /\ api_config' = get_config(load_env(environ, env_files, 1))
    /\ pc' = "hbot_connected"
    /\ UNCHANGED <<args, connectors, pair_futures, connector_pairs,
                   valid_pairs, price_futures, prices, filtered_prices,
                   outliers, opportunities, exit_code, stderr, venuesResp,
                   pairsResp, pricesResp, calls, launch_env, env_files,
                   steady>>

NextConfig ==
    \/ UseGivenConnectors
    \/ DiscoverConnectors
    \/ SubmitPairFetches
    \/ StartPairFetch
    \/ ConfigurePairFetch
    \/ RequestPairs
    \/ GetConfig

SpecConfig == InitConfig /\ [][NextConfig]_vars

----------------------------------------------------------------------------
(* The run under fair scheduling: the main thread takes its next step when *)
(* it can, and so does every worker thread; a collaborator call that was   *)
(* issued ends (it returns, fails or times out: lines 97 and 109-112 pass  *)
(* timeout=15, line 84 the default of 30).                                 *)

MainThread ==
    \/ UseGivenConnectors
    \/ DiscoverConnectors
    \/ SubmitPairFetches
    \/ ConsumePairs
    \/ CheckPairs
    \/ SubmitPriceFetches
    \/ ConsumePrices
    \/ CheckPrices
    \/ SortPrices
    \/ FilterOutliers
    \/ EmitOpportunities
    \/ RankOpportunities
    \/ Output

\* what a venue answers is fixed before the run, one answer for each way a
\* worker can end: an HTTP error, another exception, an answer that yields
\* something, and for the pair list an answer that yields nothing
InitLive ==
    LET LivePairsResponses ==
            {[kind |-> k, keys |-> <<>>] : k \in {"http_error", "raise"}}
            \cup {[kind |-> "dict", keys |-> l] :
                    l \in {<<BTC_USDT>>, <<ETH_USDT, BTCUSDT>>}}
        LivePricesResponses ==
            {[kind |-> k, wrapped |-> FALSE, items |-> <<>>] :
                    k \in {"http_error", "raise"}}
            \cup {[kind |-> "doc", wrapped |-> TRUE, items |-> i] :
                    i \in {<<<<BTC_USDT, JNum(100)>>>>}}
    IN
    \E a \in {b \in ArgsChoices : b.min_spread = 0} :
    \E pr \in [Venues -> LivePairsResponses] :
    \E qr \in [Venues -> LivePricesResponses] :
       /\ pc = "get_connectors"
       /\ args = a
       /\ connectors = <<>>
       /\ pair_futures = <<>>
       /\ connector_pairs = <<>>
       /\ valid_pairs = {}
       /\ price_futures = <<>>
       /\ prices = <<>>
       /\ filtered_prices = <<>>
       /\ outliers = <<>>
       /\ opportunities = <<>>
       /\ exit_code = -1
       /\ stderr = "none"
       /\ venuesResp = Unset
       /\ steady = TRUE
       /\ pairsResp = [v \in AllVenues |-> IF v \in Venues THEN pr[v] ELSE Unset]
       /\ pricesResp = [v \in AllVenues |-> IF v \in Venues THEN qr[v] ELSE Unset]
       /\ calls = [venues |-> 0,
                   pairs |-> [v \in AllVenues |-> 0],
                   prices |-> [v \in AllVenues |-> 0]]
       /\ HostInit(PlainEnviron, NoFiles, FALSE)

SpecLive == InitLive /\ [][Next]_vars /\ WF_vars(MainThread) /\ PoolFairness

----------------------------------------------------------------------------
(* Properties                                                              *)

PricesOf(s) == [i \in DOMAIN s |-> s[i].price]

Filtered == pc \in {"spread", "rank", "output"} \/ (pc = "exited" /\ exit_code = 0)
Emitted == pc \in {"rank", "output"} \/ (pc = "exited" /\ exit_code = 0)
Ranked == pc = "output" \/ (pc = "exited" /\ exit_code = 0)

NoDuplicates(s) == \A i, j \in DOMAIN s : s[i] = s[j] => i = j

\* C1: once the outlier filter has run on the price-ascending quote list of
\* n quotes, the filtered list holds, once each, exactly the quotes within
\* 20% of the price at index n // 2 when n >= 3, and is the whole list when
\* n < 3; [100,101,102,1000] keeps [100,101,102] and the filter applied to
\* [50,5000] keeps it whole.
C1_OutlierFilter ==
    Filtered =>
        LET n == Len(prices)
            m == prices[(n \div 2) + 1].price
        IN /\ n >= 3 =>
                /\ Range(filtered_prices) =
                     {q \in Range(prices) : 5 * Abs(q.price - m) <= m}
                /\ NoDuplicates(filtered_prices)
           /\ n < 3 => filtered_prices = prices
           /\ PricesOf(prices) = <<100, 101, 102, 1000>>
                => PricesOf(filtered_prices) = <<100, 101, 102>>
           /\ PricesOf(FilterPrices(CollectedQuotes(<<50, 5000>>))) = <<50, 5000>>

\* C1 witness: the filter ran on [100,101,102,1000] and removed only 1000
C1_Witness ==
    /\ pc = "spread"
    /\ PricesOf(prices) = <<100, 101, 102, 1000>>
    /\ PricesOf(filtered_prices) = <<100, 101, 102>>
    /\ PricesOf(outliers) = <<1000>>

\* the index pairs of the filtered list whose spread reaches min_spread
QualifyingPairs ==
    {ij \in (DOMAIN filtered_prices) \X (DOMAIN filtered_prices) :
        /\ ij[1] < ij[2]
        /\ (filtered_prices[ij[2]].price - filtered_prices[ij[1]].price) * 100
             >= args.min_spread * filtered_prices[ij[1]].price}

\* opportunity o is the record of buying quote i and selling quote j
RecordOf(o, i, j) ==
    LET buy == filtered_prices[i]
        sell == filtered_prices[j]
    IN /\ o.buy_connector = buy.connector
       /\ o.buy_pair = buy.pair
       /\ o.buy_price = buy.price
       /\ o.sell_connector = sell.connector
       /\ o.sell_pair = sell.pair
       /\ o.sell_price = sell.price
       /\ o.spread_pct.den > 0
       /\ o.spread_pct.num * buy.price
            = (sell.price - buy.price) * 100 * o.spread_pct.den
       /\ o.spread_abs = sell.price - buy.price

\* the opportunity list holds one record per qualifying pair and no other
OneRecordPerQualifyingPair ==
    /\ \A ij \in QualifyingPairs :
          Cardinality({k \in DOMAIN opportunities :
                          RecordOf(opportunities[k], ij[1], ij[2])}) = 1
    /\ \A k \in DOMAIN opportunities :
          \E ij \in QualifyingPairs : RecordOf(opportunities[k], ij[1], ij[2])
    /\ Len(opportunities) = Cardinality(QualifyingPairs)

\* C2: the emitted opportunities are exactly one record per index pair i < j
\* of the filtered list with spread >= min_spread (inclusive), each carrying
\* venue, pair and price of quote i (buy) and j (sell), spread_pct and
\* spread_abs (100 -> 105 gives 5.0 and 5.0), and none references an outlier.
C2_SpreadEngine ==
    Emitted =>
        /\ OneRecordPerQualifyingPair
        /\ \A k \in DOMAIN opportunities :
              LET o == opportunities[k] IN
              /\ (o.buy_price = 100 /\ o.sell_price = 105)
                    => (o.spread_pct = [num |-> 5, den |-> 1] /\ o.spread_abs = 5)
              /\ \A x \in DOMAIN outliers :
                    /\ <<o.buy_connector, o.buy_pair>>
                         # <<outliers[x].connector, outliers[x].pair>>
                    /\ <<o.sell_connector, o.sell_pair>>
                         # <<outliers[x].connector, outliers[x].pair>>

\* C2 witness: with min_spread 2 and [100,101,102,1000] only 100 -> 102, a
\* spread of exactly 2, is emitted; 100 -> 101 is not, 1000 is an outlier
C2_Witness ==
    /\ pc = "rank"
    /\ args.min_spread = 2
    /\ PricesOf(prices) = <<100, 101, 102, 1000>>
    /\ Len(opportunities) = 1
    /\ opportunities[1].buy_price = 100
    /\ opportunities[1].sell_price = 102
    /\ opportunities[1].spread_pct = [num |-> 2, den |-> 1]
    /\ Len(outliers) = 1

\* the place of opportunity o in the enumeration: buy index, then sell index
EnumIndex(o) ==
    CHOOSE ij \in QualifyingPairs : RecordOf(o, ij[1], ij[2])

EnumBefore(a, b) ==
    \/ EnumIndex(a)[1] < EnumIndex(b)[1]
    \/ EnumIndex(a)[1] = EnumIndex(b)[1] /\ EnumIndex(a)[2] < EnumIndex(b)[2]

SpreadsOf(s) == [i \in DOMAIN s |-> s[i].spread_pct]

\* C3: the final list is a permutation of the emitted opportunities in
\* descending spread_pct, equal spreads keeping their enumeration order;
\* spreads [1.2, 5.0, 0.3] are ranked [5.0, 1.2, 0.3].
C3_Ranking ==
    /\ Ranked =>
        /\ OneRecordPerQualifyingPair
        /\ \A a, b \in DOMAIN opportunities :
              a < b =>
                 /\ FracGE(opportunities[a].spread_pct, opportunities[b].spread_pct)
                 /\ opportunities[a].spread_pct = opportunities[b].spread_pct
                       => EnumBefore(opportunities[a], opportunities[b])
    /\ SpreadsOf(RankBySpread(<<[spread_pct |-> [num |-> 6, den |-> 5]],
                                [spread_pct |-> [num |-> 5, den |-> 1]],
                                [spread_pct |-> [num |-> 3, den |-> 10]]>>))
         = <<[num |-> 5, den |-> 1], [num |-> 6, den |-> 5], [num |-> 3, den |-> 10]>>

\* C3 witness: [100,100,105] emits spreads 0, 5, 5 and ranks them 5, 5, 0,
\* the tie in enumeration order
C3_Witness ==
    /\ pc = "output"
    /\ PricesOf(filtered_prices) = <<100, 100, 105>>
    /\ args.min_spread = 0
    /\ Len(opportunities) = 3
    /\ opportunities[1].buy_connector = filtered_prices[1].connector
    /\ opportunities[1].buy_pair = filtered_prices[1].pair
    /\ opportunities[2].buy_connector = filtered_prices[2].connector
    /\ opportunities[2].buy_pair = filtered_prices[2].pair
    /\ opportunities[3].sell_price = 100

\* a response entry that carries no positive price: null, a number <= 0, or
\* an object whose mid_price and price are both missing, null or <= 0
NoPositiveNumber(v) == v \in {JAbsent, JNull} \/ (v[1] = "num" /\ v[2] <= 0)
NoUsablePrice(data) ==
    IF data[1] = "obj"
    THEN NoPositiveNumber(data[2]) /\ NoPositiveNumber(data[3])
    ELSE NoPositiveNumber(data)

\* the entries of the price document a venue answered with
ItemsOf(v) == IF pricesResp[v].kind = "doc" THEN pricesResp[v].items ELSE <<>>

\* C4: every collected quote has price > 0, and an entry whose price is
\* missing, null, zero or negative adds no quote for its venue and pair.
C4_PricePositivity ==
    \A i \in DOMAIN prices :
       /\ prices[i].price > 0
       /\ \A k \in DOMAIN ItemsOf(prices[i].connector) :
             LET item == ItemsOf(prices[i].connector)[k]
             IN item[1] = prices[i].pair => ~NoUsablePrice(item[2])

\* C4 witness: venue X answered a requested pair with a price that is null,
\* zero, negative or missing and another with a positive one; only the
\* second became a quote
C4_Witness ==
    /\ pc = "collect"
    /\ \E i \in DOMAIN price_futures :
          /\ price_futures[i].yielded
          /\ price_futures[i].connector = "X"
          /\ price_futures[i].pairs = <<BTC_USDT, BTC_USDC>>
          /\ Len(ItemsOf("X")) = 2
          /\ NoUsablePrice(ItemsOf("X")[1][2])
          /\ ItemsOf("X")[2][2] = JNum(102)
          /\ \E q \in Range(prices) : q.connector = "X" /\ q.price = 102
          /\ Cardinality({q \in Range(prices) : q.connector = "X"}) = 1

\* the run on the same steady answers in which every future is yielded in
\* the order it was submitted
RECURSIVE InOrderResolve(_, _)
InOrderResolve(cp, k) ==
    IF k > Len(connectors) THEN cp
    ELSE InOrderResolve(ResolveResult(cp, connectors[k],
                                      PairsResult(pairsResp[connectors[k]]),
                                      args),
                        k + 1)

RECURSIVE InOrderCollect(_, _, _)
InOrderCollect(cp, acc, k) ==
    IF k > Len(cp) THEN acc
    ELSE InOrderCollect(cp, CollectResult(acc, cp[k][1], cp[k][2],
                                          PricesResult(pricesResp[cp[k][1]])),
                        k + 1)

InOrderPrices == SortByPrice(InOrderCollect(InOrderResolve(<<>>, 1), <<>>, 1))
InOrderFiltered == FilterPrices(InOrderPrices)
InOrderOutliers == Outliers(InOrderPrices, InOrderFiltered)
InOrderOpportunities ==
    RankBySpread(ComputeOpportunities(InOrderFiltered, args.min_spread))

\* C5: for fixed collaborator responses every completion order of the
\* fetches gives the filtered quote list, the outlier list and the ranked
\* opportunity list, buy and sell sides included, that the in-order run gives.
C5_OrderIndependent ==
    (pc = "exited" /\ exit_code = 0) =>
       /\ filtered_prices = InOrderFiltered
       /\ outliers = InOrderOutliers
       /\ opportunities = InOrderOpportunities

PairFetchesFinished ==
    \A i \in DOMAIN pair_futures : pair_futures[i].state = "FINISHED"
PriceFetchesFinished ==
    \A i \in DOMAIN price_futures : price_futures[i].state = "FINISHED"

\* C6: no price fetch is submitted or started, and the mapping is not read
\* for the price stage, before every pair-list fetch has finished; the quote
\* list is sorted and filtered only after every price fetch has finished.
C6_StageBarrier ==
    /\ (\/ price_futures # <<>>
        \/ valid_pairs # {}
        \/ \E v \in AllVenues : calls.prices[v] > 0
        \/ pc \in {"submit_prices", "collect"})
          => /\ PairFetchesFinished
             /\ \A i \in DOMAIN pair_futures : pair_futures[i].yielded
    /\ pc = "submit_prices" => pair_futures # <<>>
    /\ (\/ pc \in {"sort", "filter", "spread", "rank", "output"}
        \/ filtered_prices # <<>>
        \/ exit_code = 0)
          => (price_futures # <<>> /\ PriceFetchesFinished)

\* C6 witness: a price fetch is in flight and both pair-list fetches are done
C6_Witness ==
    /\ Len(pair_futures) = 2
    /\ PairFetchesFinished
    /\ \E i \in DOMAIN price_futures : price_futures[i].state = "RUNNING"

ResolutionOver == pc \notin {"get_connectors", "submit_pairs", "resolve"}
                  /\ (pair_futures # <<>> \/ price_futures # <<>>)

\* the mapping is final and about to be read, or the run has ended
MappingFinal == pc \in {"submit_prices", "exited"} /\ pair_futures # <<>>

\* the pair-list calls of a venue (two when --connectors names it twice)
PairCallsTo(v) == {i \in DOMAIN pair_futures : pair_futures[i].connector = v}

\* the call raised or returned no pair: an HTTP or network error, a
\* timeout, a body that is no dict or has the shape of an error
PairCallFailed(i) ==
    pair_futures[i].result[1].raised \/ pair_futures[i].result[1].value = <<>>

\* the matched pairs of what the call returned
OwnMatches(i) ==
    find_matching_pairs(pair_futures[i].result[1].value, args.base_tokens,
                        args.quote_tokens)

\* C7: after resolution a venue whose pair-list call failed (every call of
\* it, when it is named twice) is not in the mapping, every other venue's
\* entry is the matched pairs of its own response whatever the other venues
\* did, and the run ends for want of pairs only when no venue has a matched
\* pair.
C7_PairFailureIsolation ==
    MappingFinal =>
       /\ \A v \in Range(connectors) :
             LET good == {i \in PairCallsTo(v) :
                            ~PairCallFailed(i) /\ OwnMatches(i) # <<>>}
             IN /\ (\A i \in PairCallsTo(v) : PairCallFailed(i))
                      => v \notin DictKeys(connector_pairs)
                /\ good # {}
                      => (v \in DictKeys(connector_pairs)
                          /\ DictGet(connector_pairs, v)
                                \in {OwnMatches(i) : i \in good})
                /\ (good # {} /\ pc = "exited") => stderr # "no_pairs"
       /\ stderr = "traceback" => venuesResp.kind = "raise"

\* C7 witness: X's pair-list call raised, Y's entry is there and the run
\* goes on to the price stage
C7_Witness ==
    /\ pc = "submit_prices"
    /\ connectors = <<"X", "Y">>
    /\ pair_futures[1].result[1].raised
    /\ connector_pairs = <<<<"Y", <<BTC_USDT, BTC_USDC>>>>>>

PriceFetchFailed(v) ==
    \/ pricesResp[v].kind \in {"http_error", "raise"}
    \/ HasKey(ItemsOf(v), ErrorKey)

QuotesFrom(v) == {q \in Range(prices) : q.connector = v}

\* C8: a venue whose price fetch failed contributes no quote, every other
\* venue contributes the quotes of its own response whatever the others
\* did, and the run ends for want of prices only when no venue gave one.
C8_PriceFailureIsolation ==
    /\ \A i \in DOMAIN price_futures :
          LET v == price_futures[i].connector
              own == CollectResult(<<>>, v, price_futures[i].pairs,
                                   price_futures[i].result[1])
          IN IF price_futures[i].yielded
             THEN /\ PriceFetchFailed(v) => QuotesFrom(v) = {}
                  /\ QuotesFrom(v) = Range(own)
                  /\ (pc = "exited" /\ own # <<>>) => exit_code = 0
             ELSE QuotesFrom(v) = {}
    /\ stderr = "no_prices" => prices = <<>>

\* C8 witness: X's price fetch failed, Y's quotes were collected and the run
\* went on to the derivation
C8_Witness ==
    /\ pc = "sort"
    /\ Len(price_futures) = 2
    /\ PriceFetchFailed("X")
    /\ QuotesFrom("X") = {}
    /\ Cardinality(QuotesFrom("Y")) = 2

NoVenueUsable ==
    \/ venuesResp.kind \in {"http_error", "raise", "nonlist"}
    \/ venuesResp.kind = "list" /\ venuesResp.value = <<>>

NoFetchIssued ==
    /\ \A v \in AllVenues : calls.pairs[v] = 0 /\ calls.prices[v] = 0
    /\ pair_futures = <<>>
    /\ price_futures = <<>>

\* C9: without an explicit venue list (absent or empty --connectors) "list
\* venues" is called once, and an empty list, a non-list or a failure ends
\* the run non-zero with a diagnostic before any pair-list or price call and
\* before any opportunity; with a non-empty explicit list it is never called.
C9_VenueDiscovery ==
    /\ args.connectors_opt = "given" => (calls.venues = 0 /\ venuesResp = Unset)
    /\ (args.connectors_opt \in {"absent", "empty"} /\ pc # "get_connectors")
          => calls.venues = 1
    /\ (venuesResp # Unset /\ NoVenueUsable)
          => /\ pc = "exited"
             /\ exit_code = 1
             /\ stderr \in {"no_connectors", "traceback"}
             /\ NoFetchIssued
             /\ opportunities = <<>>
    /\ (venuesResp # Unset /\ ~NoVenueUsable) => connectors = venuesResp.value

\* C9 witness: --connectors given empty, discovery answered [], the run
\* ended with status 1 and the no-connectors diagnostic
C9_Witness ==
    /\ args.connectors_opt = "empty"
    /\ venuesResp = [kind |-> "list", value |-> <<>>]
    /\ pc = "exited"
    /\ exit_code = 1
    /\ stderr = "no_connectors"

\* C10: once the venue list is non-empty, the resolution stage ends the run
\* non-zero if and only if the mapping is empty after all pair-list fetches
\* have finished, and then no price call is ever issued.
C10_EmptyMappingFatal ==
    /\ ResolutionOver =>
          ((pc = "exited" /\ exit_code = 1 /\ stderr = "no_pairs")
              <=> connector_pairs = <<>>)
    /\ stderr = "no_pairs" =>
          /\ connectors # <<>>
          /\ PairFetchesFinished
          /\ price_futures = <<>>
          /\ \A v \in AllVenues : calls.prices[v] = 0

\* C10 witness: two venues, one failed and one lists no matching pair: the
\* run ended with status 1
C10_Witness ==
    /\ pc = "exited"
    /\ stderr = "no_pairs"
    /\ exit_code = 1
    /\ connectors = <<"X", "Y">>
    /\ pair_futures[1].result[1] = [raised |-> FALSE, value |-> <<>>]
    /\ pair_futures[2].result[1].value = <<ETH_USDT, BTCUSDT>>

CollectionOver ==
    \/ pc \in {"sort", "filter", "spread", "rank", "output"}
    \/ pc = "exited" /\ price_futures # <<>>

\* C11: once every price fetch has finished and been consumed, the run ends
\* with status 1 and the no-prices diagnostic if and only if the quote list
\* is empty, and then nothing is filtered, no spread is computed and no
\* report is produced.
C11_NoPricesFatal ==
    /\ CollectionOver =>
          ((pc = "exited" /\ exit_code = 1 /\ stderr = "no_prices")
              <=> prices = <<>>)
    /\ stderr = "no_prices" =>
          /\ PriceFetchesFinished
          /\ AllYielded(price_futures)
          /\ pc = "exited"
          /\ exit_code # 0
          /\ filtered_prices = <<>>
          /\ outliers = <<>>
          /\ opportunities = <<>>

\* C11 witness: two venues were asked for prices, X answered a price of
\* zero and Y's call failed: the run ended with the no-prices diagnostic
C11_Witness ==
    /\ pc = "exited"
    /\ stderr = "no_prices"
    /\ exit_code = 1
    /\ Len(price_futures) = 2
    /\ ItemsOf("X") = <<<<BTC_USDT, JNum(0)>>>>
    /\ pricesResp["Y"].kind = "http_error"

\* C12: a run that has ended has status 0 or 1; it has status 0 exactly
\* when at least one quote was collected, also with a single filtered quote
\* or with no opportunity reaching min_spread; status 1 comes only with no
\* venue, no matched pair on any venue or no usable price from any venue.
C12_ExitStatus ==
    /\ pc # "exited" => (exit_code = -1 /\ stderr = "none")
    /\ pc = "exited" =>
          /\ exit_code \in {0, 1}
          /\ exit_code = 0 <=> prices # <<>>
          /\ exit_code = 0 => stderr = "none"
          /\ exit_code = 1 =>
                \/ stderr \in {"no_connectors", "traceback"}
                      /\ venuesResp # Unset /\ NoVenueUsable
                \/ stderr = "no_pairs"
                      /\ connectors # <<>> /\ connector_pairs = <<>>
                \/ stderr = "no_prices"
                      /\ connector_pairs # <<>> /\ prices = <<>>

\* C12 witness: two quotes of 100 and min_spread 2: no opportunity, status 0
C12_Witness ==
    /\ pc = "exited"
    /\ exit_code = 0
    /\ args.min_spread = 2
    /\ PricesOf(filtered_prices) = <<100, 100>>
    /\ opportunities = <<>>

\* the separator a pair is split on, and its first occurrence
SepOf(p) == IF \E i \in DOMAIN p : p[i] = "-" THEN "-" ELSE "/"
HasSep(p) == \E i \in DOMAIN p : p[i] \in {"-", "/"}
FirstSep(p) ==
    CHOOSE i \in DOMAIN p :
        p[i] = SepOf(p) /\ \A j \in DOMAIN p : p[j] = SepOf(p) => i <= j
BasePart(p) == Upper(SubSeq(p, 1, FirstSep(p) - 1))
QuotePart(p) == Upper(SubSeq(p, FirstSep(p) + 1, Len(p)))

UpperAliases(tokens) == {Upper(tokens[i]) : i \in DOMAIN tokens}

IsMatch(p, base_tokens, quote_tokens) ==
    /\ HasSep(p)
    /\ BasePart(p) \in UpperAliases(base_tokens)
    /\ QuotePart(p) \in UpperAliases(quote_tokens)

\* C13: the pairs matched for a venue are, in input order and as spelled,
\* exactly the listed pairs that contain a separator and whose uppercased
\* base and quote parts (split at the first '-' if there is one, else at the
\* first '/') are in the uppercased alias sets; 'btc-usdt' matches exactly
\* when 'BTC-USDT' does, 'ETH/USDC' and 'ETH-USDC' have the same parts, and
\* 'ETHUSDC' is never matched.
C13_PairMatching ==
    /\ (pair_futures # <<>> /\ pair_futures[1].yielded) =>
          LET m(p) == IsMatch(p, args.base_tokens, args.quote_tokens)
              expected == SelectSeq(pairsResp["X"].keys, m)
          IN /\ connector_pairs =
                   (IF expected = <<>> THEN <<>> ELSE <<<<"X", expected>>>>)
             /\ \A i \in DOMAIN connector_pairs :
                   ~InSeq(ETHUSDC, connector_pairs[i][2])
    /\ (find_matching_pairs(<<btc_usdt>>, args.base_tokens, args.quote_tokens)
            = <<btc_usdt>>)
         <=> (find_matching_pairs(<<BTC_USDT>>, args.base_tokens,
                                  args.quote_tokens) = <<BTC_USDT>>)
    /\ find_matching_pairs(<<btc_usdt>>, <<BTC>>, <<USDT>>) = <<btc_usdt>>
    /\ <<BasePart(ETH_slash_USDC), QuotePart(ETH_slash_USDC)>> = <<ETH, USDC>>
    /\ <<BasePart(ETH_USDC), QuotePart(ETH_USDC)>> = <<ETH, USDC>>
    /\ (find_matching_pairs(<<ETH_slash_USDC>>, args.base_tokens,
                            args.quote_tokens) = <<>>)
         <=> (find_matching_pairs(<<ETH_USDC>>, args.base_tokens,
                                  args.quote_tokens) = <<>>)

\* C13 witness: the venue listed 'ETHUSDC' and 'btc-usdt' and the aliases
\* are BTC and USDT: the mapping holds 'btc-usdt' as spelled and nothing else
C13_Witness ==
    /\ pc = "submit_prices"
    /\ pairsResp["X"].keys = <<ETHUSDC, btc_usdt>>
    /\ args.base_tokens = <<BTC>>
    /\ args.quote_tokens = <<USDT>>
    /\ connector_pairs = <<<<"X", <<btc_usdt>>>>>>

\* what a pair-list call gave, as far as it has returned
ListedPairs(i) ==
    IF pair_futures[i].state = "FINISHED" /\ ~pair_futures[i].result[1].raised
    THEN pair_futures[i].result[1].value ELSE <<>>

\* for the aliases and pair lists of Spec: no listed pair matches
AliasChoices == {<<a.base_tokens, a.quote_tokens>> : a \in ArgsChoices}
NoneMatches ==
    [al \in AliasChoices, l \in PairLists \cup {<<>>} |->
        \A i \in DOMAIN l : ~IsMatch(l[i], al[1], al[2])]

\* no call to the venue has listed a matching pair, as the pair-list
\* futures tell while main() holds them
ZeroMatches(v) ==
    /\ price_futures # <<>> => pair_futures # <<>>
    /\ \A i \in DOMAIN pair_futures :
          pair_futures[i].connector = v
             => NoneMatches[<<args.base_tokens, args.quote_tokens>>,
                            ListedPairs(i)]

PriceCallsFor(v) ==
    {i \in DOMAIN price_futures : price_futures[i].connector = v}

\* C14: in every state each entry of the mapping has a non-empty pair list
\* and a scanned venue as key, and a venue none of whose listed pairs
\* matches is no key of the mapping, has no price fetch submitted and
\* receives no price call.
C14_MappingInvariant ==
    /\ \A i \in DOMAIN connector_pairs :
          /\ connector_pairs[i][2] # <<>>
          /\ connector_pairs[i][1] \in Range(connectors)
    /\ \A v \in AllVenues :
          /\ ZeroMatches(v) => v \notin DictKeys(connector_pairs)
          /\ v \notin DictKeys(connector_pairs) =>
                /\ PriceCallsFor(v) = {}
                /\ calls.prices[v] = 0

\* C14 witness: X and Y were both scanned and Y gave no matching pair: X
\* alone is in the mapping and X alone was asked for prices
C14_Witness ==
    /\ pc = "collect"
    /\ connectors = <<"X", "Y">>
    /\ calls.pairs["Y"] = 1
    /\ DictKeys(connector_pairs) = {"X"}
    /\ PriceFetchesFinished
    /\ calls.prices["X"] = 1
    /\ calls.prices["Y"] = 0

RequestedFrom(v) ==
    IF v \in DictKeys(connector_pairs)
    THEN {Upper(p) : p \in Range(DictGet(connector_pairs, v))}
    ELSE {}

\* C15: the pair of every collected quote, uppercased, is one of the
\* uppercased pairs requested from the quote's own venue; so an entry a
\* venue answers for a pair not requested from it is no quote, also when
\* the pair was requested from another venue.
C15_UnrequestedDropped ==
    \A i \in DOMAIN prices :
       Upper(prices[i].pair) \in RequestedFrom(prices[i].connector)

\* C15 witness: X was asked for BTC-USDT only and Y for both pairs; X
\* answered a positive price for both and only its BTC-USDT became a quote
C15_Witness ==
    /\ pc = "sort"
    /\ connector_pairs = <<<<"X", <<BTC_USDT>>>>,
                           <<"Y", <<BTC_USDT, BTC_USDC>>>>>>
    /\ ItemsOf("X") = <<<<BTC_USDT, JNum(100)>>, <<BTC_USDC, JNum(102)>>>>
    /\ {q.pair : q \in QuotesFrom("X")} = {BTC_USDT}
    /\ {q.pair : q \in QuotesFrom("Y")} = {BTC_USDT, BTC_USDC}

\* C16: at most one price fetch is submitted and at most one price call is
\* issued per venue; a price call goes only to a venue of the mapping and
\* its fetch carries the venue's whole matched list; once collection is
\* over every venue of the mapping has received exactly one call, also when
\* --connectors names a venue twice.
C16_OnePriceCallPerVenue ==
    /\ \A v \in AllVenues :
          /\ calls.prices[v] <= 1
          /\ Cardinality(PriceCallsFor(v)) <= 1
          /\ calls.prices[v] = 1 =>
                /\ v \in DictKeys(connector_pairs)
                /\ \E i \in PriceCallsFor(v) :
                      /\ price_futures[i].state # "PENDING"
                      /\ price_futures[i].pairs = DictGet(connector_pairs, v)
    /\ Len(price_futures) <= Len(connector_pairs)
    /\ \A i \in DOMAIN price_futures :
          /\ price_futures[i].connector = connector_pairs[i][1]
          /\ price_futures[i].pairs = connector_pairs[i][2]
    /\ (price_futures # <<>> /\ pc # "submit_prices") =>
          /\ Len(price_futures) = Len(connector_pairs)
          /\ \A v \in DictKeys(connector_pairs) :
                \E i \in PriceCallsFor(v) :
                   price_futures[i].pairs = DictGet(connector_pairs, v)
    /\ CollectionOver =>
          \A v \in DictKeys(connector_pairs) : calls.prices[v] = 1

\* C16 witness: --connectors X,X: two pair-list calls to X, one mapping
\* entry with two pairs and one price call carrying both
C16_Witness ==
    /\ pc = "sort"
    /\ connectors = <<"X", "X">>
    /\ calls.pairs["X"] = 2
    /\ connector_pairs = <<<<"X", <<BTC_USDT, BTC_USDC>>>>>>
    /\ Len(price_futures) = 1
    /\ price_futures[1].pairs = <<BTC_USDT, BTC_USDC>>
    /\ calls.prices["X"] = 1
    /\ Len(prices) = 2

StartedPairFetches(v) ==
    {i \in DOMAIN pair_futures :
        pair_futures[i].connector = v /\ pair_futures[i].sent}
StartedPriceFetches(v) ==
    {i \in DOMAIN price_futures :
        price_futures[i].connector = v /\ price_futures[i].sent}

\* C17: the requests issued to a venue are as many as the pair-list
\* fetches, respectively price fetches, of that venue whose worker has
\* reached its request: one per unit of work, whether it is still running,
\* has returned or has failed, and none for a unit still queued or just
\* taken; in the price stage the pair-list requests of a venue stay as many
\* as --connectors names it; "list venues" is requested at most once.
C17_NoRetries ==
    /\ calls.venues <= 1
    /\ \A v \in AllVenues :
          /\ calls.pairs[v] =
                IF pair_futures = <<>> /\ price_futures # <<>>
                THEN Cardinality({k \in DOMAIN connectors : connectors[k] = v})
                ELSE Cardinality(StartedPairFetches(v))
          /\ calls.prices[v] = Cardinality(StartedPriceFetches(v))
    /\ \A i \in DOMAIN pair_futures :
          /\ pair_futures[i].state = "FINISHED" => pair_futures[i].sent
          /\ pair_futures[i].state = "PENDING" => ~pair_futures[i].sent
    /\ \A i \in DOMAIN price_futures :
          /\ price_futures[i].state = "FINISHED" => price_futures[i].sent
          /\ price_futures[i].state = "PENDING" => ~price_futures[i].sent

\* C17 witness: X's pair-list call failed and Y's price call timed out; the
\* run ended with one pair-list request per venue and one price request
C17_Witness ==
    /\ pc = "exited"
    /\ connectors = <<"X", "Y">>
    /\ DictKeys(connector_pairs) = {"Y"}
    /\ pricesResp["Y"].kind = "raise"
    /\ calls.pairs["X"] = 1
    /\ calls.pairs["Y"] = 1
    /\ calls.prices["X"] = 0
    /\ calls.prices["Y"] = 1

InFlight ==
    Cardinality(Running(pair_futures)) + Cardinality(Running(price_futures))

FinishedBefore(fs, i) == {j \in 1..(i - 1) : fs[j].state = "FINISHED"}

\* a task beyond the tenth has left the queue only after as many earlier
\* ones have finished as it is beyond the tenth
StartedAsOthersFinish(fs) ==
    \A i \in DOMAIN fs :
       (i > max_workers /\ fs[i].state # "PENDING")
          => Cardinality(FinishedBefore(fs, i)) >= i - max_workers

AllStarted(fs) == \A i \in DOMAIN fs : fs[i].state # "PENDING"

PoolSafety ==
    /\ InFlight <= max_workers
    /\ StartedAsOthersFinish(pair_futures)
    /\ StartedAsOthersFinish(price_futures)

\* main() leaves neither with block while a fetch it submitted is queued
PoolBarrier ==
    /\ pc \notin {"submit_pairs", "resolve"} => AllStarted(pair_futures)
    /\ pc \notin {"submit_prices", "collect"} => AllStarted(price_futures)

\* while a submitted fetch is queued, a worker thread can take a step
QueuedFetchWaitsForWorker ==
    ~(AllStarted(pair_futures) /\ AllStarted(price_futures))
       => ENABLED WorkerStep

\* how far a fetch has come: queued, started, configured, sent, finished
FetchRank(f) ==
    CASE f.state = "PENDING" -> 0
      [] f.state = "FINISHED" -> 4
      [] f.sent -> 3
      [] f.configured -> 2
      [] OTHER -> 1

\* a fetch of fs that is still in gs has not fallen back
NoneFallsBack(fs, gs) ==
    \A i \in DOMAIN fs \cap DOMAIN gs : FetchRank(gs[i]) >= FetchRank(fs[i])

SomeAdvances(fs, gs) ==
    \E i \in DOMAIN fs \cap DOMAIN gs : FetchRank(gs[i]) > FetchRank(fs[i])

\* no step takes a fetch back, and a worker step takes one fetch on
FetchesAdvance ==
    /\ NoneFallsBack(pair_futures, pair_futures')
    /\ NoneFallsBack(price_futures, price_futures')
    /\ \/ SomeAdvances(pair_futures, pair_futures')
       \/ SomeAdvances(price_futures, price_futures')
       \/ ~WorkerStep

Count(q, s) == Cardinality({i \in DOMAIN s : s[i] = q})

\* kept and excluded are disjoint and hold every element of all, as often
\* as all holds it
Partition(all, kept, excluded) ==
    /\ Range(kept) \cap Range(excluded) = {}
    /\ \A q \in Range(all) \cup Range(kept) \cup Range(excluded) :
          Count(q, all) = Count(q, kept) + Count(q, excluded)

\* two venues at 100 and two at 1000, each venue's quote collected twice
TwiceCollected ==
    LET low == Quote("X", BTC_USDT, 100, None, None)
        high == Quote("Y", BTC_USDT, 1000, None, None)
    IN <<low, low, high, high>>

\* C19: once the filter has run, the filtered list and the outlier list
\* partition the quote list: disjoint, every quote in exactly one of them,
\* identical quotes counted as often as collected; and the JSON document
\* carries the filtered list under "prices" and the outliers under
\* "outliers".
C19_OutliersReported ==
    /\ Filtered =>
          LET doc == JsonDocument(filtered_prices, outliers, opportunities)
          IN /\ Partition(prices, filtered_prices, outliers)
             /\ Partition(prices, doc.prices, doc.outliers)
             /\ doc.prices = FilterPrices(prices)
             /\ \A i \in DOMAIN doc.outliers :
                   /\ Len(prices) >= min_quotes_for_filter
                   /\ ~WithinThreshold(doc.outliers[i].price, MedianPrice(prices))
             /\ \A i \in DOMAIN opportunities :
                   /\ \E k \in DOMAIN doc.prices :
                         doc.prices[k].price = opportunities[i].buy_price
                   /\ \E k \in DOMAIN doc.prices :
                         doc.prices[k].price = opportunities[i].sell_price
    /\ Partition(TwiceCollected, FilterPrices(TwiceCollected),
                 Outliers(TwiceCollected, FilterPrices(TwiceCollected)))
    /\ Len(Outliers(TwiceCollected, FilterPrices(TwiceCollected))) = 2

\* C19 witness: quotes [100, 120, 1000, 1000] with the median 1000: the two
\* low quotes are reported as outliers, the two at 1000 as prices
C19_Witness ==
    /\ pc = "exited"
    /\ exit_code = 0
    /\ PricesOf(prices) = <<100, 120, 1000, 1000>>
    /\ PricesOf(filtered_prices) = <<1000, 1000>>
    /\ PricesOf(outliers) = <<100, 120>>

\* C20 as claimed: after filtering no quote of a filtered list the outlier
\* rule applies to (three or more quotes) deviates by more than 20% from
\* the median (index len // 2) of the filtered list itself; the filter
\* applied to the filtered list removes nothing.
C20_FilterIdempotent ==
    Filtered =>
       /\ Len(filtered_prices) >= 3 =>
             \A i \in DOMAIN filtered_prices :
                5 * Abs(filtered_prices[i].price - MedianPrice(filtered_prices))
                   <= MedianPrice(filtered_prices)
       /\ FilterPrices(filtered_prices) = filtered_prices

\* C20 amended: when the filter has run on three or more quotes, no
\* filtered quote deviates by more than 20% from the median (index
\* len // 2) of the price-sorted quote list before filtering.
C20_WithinQuoteSetMedian ==
    (Filtered /\ Len(prices) >= 3) =>
       LET m == prices[(Len(prices) \div 2) + 1].price
       IN \A i \in DOMAIN filtered_prices :
             5 * Abs(filtered_prices[i].price - m) <= m

\* C20 witness: [100, 100, 121, 1000] has the median 121 and keeps
\* [100, 100, 121], whose own median is 100: a second pass would drop 121
C20_Witness ==
    /\ pc = "spread"
    /\ PricesOf(prices) = <<100, 100, 121, 1000>>
    /\ PricesOf(filtered_prices) = <<100, 100, 121>>
    /\ PricesOf(FilterPrices(filtered_prices)) = <<100, 100>>

----------------------------------------------------------------------------
Ascending(s) == \A i, j \in DOMAIN s : i < j => s[i].price <= s[j].price

\* a is b with some elements left out, the order of the others kept
RECURSIVE IsSubList(_, _)
IsSubList(a, b) ==
    IF a = <<>> THEN TRUE
    ELSE IF b = <<>> THEN FALSE
    ELSE IF Head(a) = Head(b) THEN IsSubList(Tail(a), Tail(b))
    ELSE IsSubList(a, Tail(b))

\* C21: the Filtered Quote Set is in ascending price order, being an
\* order-preserving sub-list of the price-sorted Quote Set, and every
\* emitted Opportunity sells at no less than it buys: spread_pct >= 0 and
\* spread_abs >= 0, whatever min_spread is, a negative one included.
C21_SpreadNonNegative ==
    /\ Filtered =>
          /\ Ascending(prices)
          /\ Ascending(filtered_prices)
          /\ IsSubList(filtered_prices, prices)
    /\ Emitted =>
          \A k \in DOMAIN opportunities :
             /\ opportunities[k].sell_price >= opportunities[k].buy_price
             /\ opportunities[k].spread_pct.num >= 0
             /\ opportunities[k].spread_abs >= 0

\* a run with a negative min_spread in which the filter removed a quote and
\* the engine emitted a record of spread zero and one of positive spread
C21_Witness ==
    /\ Emitted
    /\ args.min_spread < 0
    /\ Len(filtered_prices) < Len(prices)
    /\ \E k \in DOMAIN opportunities : opportunities[k].spread_abs = 0
    /\ \E k \in DOMAIN opportunities : opportunities[k].spread_abs > 0

----------------------------------------------------------------------------
\* the positive price a venue's document gives for a pair, 0 when none
QuotedPrice(v, pair) ==
    IF pricesResp[v] = Unset THEN 0
    ELSE LET it == pricesResp[v].items
             hits == {i \in DOMAIN it : it[i][1] = pair}
         IN IF hits = {} THEN 0
            ELSE EntryPrice(it[CHOOSE i \in hits : TRUE][2])[2]

ListsPair(v, pair) == pairsResp[v] # Unset /\ pair \in Range(pairsResp[v].keys)

\* three venues are scanned, each quotes BTC-USDT, two at 100 and one at 1000
ThreeVenueEqualPrice ==
    /\ Range(args.connectors) = AllVenues
    /\ Len(args.connectors) = 3
    /\ \A v \in AllVenues : ListsPair(v, BTC_USDT)
    /\ \E far \in AllVenues :
          /\ QuotedPrice(far, BTC_USDT) = 1000
          /\ \A v \in AllVenues \ {far} : QuotedPrice(v, BTC_USDT) = 100

default_min_spread == 0

\* C22 as stated: with prices 100, 100 and 1000 from three venues and the
\* default min_spread the filter removes the 1000 quote and the remaining
\* [100, 100] yields no Opportunity.
C22_EqualPricesNoOpportunity ==
    (ThreeVenueEqualPrice /\ args.min_spread = default_min_spread /\ Ranked) =>
        /\ PricesOf(filtered_prices) = <<100, 100>>
        /\ PricesOf(outliers) = <<1000>>
        /\ opportunities = <<>>

\* C22 amended: the filter removes the 1000 quote; the remaining [100, 100]
\* yields exactly one Opportunity, of spread 0, when min_spread <= 0 (the
\* default 0.0 included, the bound being inclusive) and none when
\* min_spread > 0.
C22_EqualPricesZeroSpread ==
    (ThreeVenueEqualPrice /\ Ranked) =>
        /\ PricesOf(filtered_prices) = <<100, 100>>
        /\ PricesOf(outliers) = <<1000>>
        /\ IF args.min_spread <= 0
           THEN /\ Len(opportunities) = 1
                /\ opportunities[1].buy_price = 100
                /\ opportunities[1].sell_price = 100
                /\ opportunities[1].spread_pct = Frac(0, 1)
                /\ opportunities[1].spread_abs = 0
                /\ opportunities[1].buy_connector # opportunities[1].sell_connector
           ELSE opportunities = <<>>

\* the scenario has run to its end with the default min_spread and reports
\* its one zero-spread Opportunity
C22_Witness ==
    /\ ThreeVenueEqualPrice
    /\ args.min_spread = default_min_spread
    /\ pc = "exited" /\ exit_code = 0
    /\ PricesOf(outliers) = <<1000>>
    /\ Len(opportunities) = 1
    /\ opportunities[1].spread_abs = 0

----------------------------------------------------------------------------
\* venue X lists BTC-USDT and quotes it at 50000, venue Y lists BTC-USDC
\* and quotes it at 50500; base aliases {BTC}, quote aliases {USDT, USDC},
\* min_spread 0
TwoVenueAlias ==
    /\ Range(args.connectors) = {"X", "Y"}
    /\ UpperAliases(args.base_tokens) = {BTC}
    /\ UpperAliases(args.quote_tokens) = {USDT, USDC}
    /\ args.min_spread = 0
    /\ ListsPair("X", BTC_USDT) /\ ~ListsPair("X", BTC_USDC)
    /\ ListsPair("Y", BTC_USDC) /\ ~ListsPair("Y", BTC_USDT)
    /\ QuotedPrice("X", BTC_USDT) = 50000
    /\ QuotedPrice("Y", BTC_USDC) = 50500

QuoteX == Quote("X", BTC_USDT, 50000, None, None)
QuoteY == Quote("Y", BTC_USDC, 50500, None, None)

\* C23: in the two-venue alias scenario the pipeline resolves one pair per
\* venue, collects the two quotes, filters nothing (n = 2) and yields
\* exactly one Opportunity, buy X at 50000 and sell Y at 50500 with
\* spread_pct 1.0 and spread_abs 500, whatever the completion order of the
\* fetches; no run of the scenario ends in a fatal exit.
C23_TwoVenueAliasScenario ==
    TwoVenueAlias =>
        /\ pc = "exited" => exit_code = 0
        /\ pc \in {"submit_prices", "collect"} =>
              /\ DictKeys(connector_pairs) = {"X", "Y"}
              /\ DictGet(connector_pairs, "X") = <<BTC_USDT>>
              /\ DictGet(connector_pairs, "Y") = <<BTC_USDC>>
        /\ Filtered =>
              /\ prices = <<QuoteX, QuoteY>>
              /\ filtered_prices = prices
              /\ outliers = <<>>
        /\ Emitted =>
              opportunities =
                 <<[buy_connector |-> "X", buy_pair |-> BTC_USDT,
                    buy_price |-> 50000,
                    sell_connector |-> "Y", sell_pair |-> BTC_USDC,
                    sell_price |-> 50500,
                    spread_pct |-> [num |-> 1, den |-> 1],
                    spread_abs |-> 500]>>

\* the scenario has run to its end with Y's price fetch consumed before X's
C23_Witness ==
    /\ TwoVenueAlias
    /\ pc = "exited" /\ exit_code = 0
    /\ Len(opportunities) = 1
    /\ opportunities[1].spread_abs = 500
    /\ args.connectors = <<"Y", "X">>
    /\ connector_pairs[1][1] = "Y"

----------------------------------------------------------------------------
\* C24: every emitted Opportunity buys on one venue and sells on another,
\* also when a venue lists several matched pairs.
C24_AcrossExchanges ==
    Emitted =>
        \A k \in DOMAIN opportunities :
           opportunities[k].buy_connector # opportunities[k].sell_connector

----------------------------------------------------------------------------
ConfigFields == {"url", "user", "password"}

ConfigKey(field) ==
    CASE field = "url" -> HUMMINGBOT_API_URL
      [] field = "user" -> API_USER
      [] field = "password" -> API_PASS

DefaultOf(field) == IF field = "url" THEN default_url ELSE admin

\* the candidate files that exist, by their rank, and the lines of the first
ExistingFiles == {i \in DOMAIN env_paths : env_files[env_paths[i]] # None}
FirstExisting ==
    env_files[env_paths[CHOOSE i \in ExistingFiles :
                           \A j \in ExistingFiles : i <= j]][1]

\* the lines of a file that assign a variable, and the value the file gives
\* it: that of the first such line
Assigning(lines, key) ==
    {i \in DOMAIN lines :
        ParseLine(lines[i]) # None /\ ParseLine(lines[i])[1].key = key}
GivenBy(lines, key) ==
    ParseLine(lines[CHOOSE i \in Assigning(lines, key) :
                       \A j \in Assigning(lines, key) : i <= j])[1].value

\* environment variable, else first existing file, else default
Layered(key, default) ==
    IF launch_env[key] # None THEN launch_env[key][1]
    ELSE IF ExistingFiles = {} THEN default
    ELSE IF Assigning(FirstExisting, key) = {} THEN default
    ELSE GivenBy(FirstExisting, key)

\* C25: each of URL, user and password resolves to its environment
\* variable when that was set at launch, otherwise to the value the first
\* existing candidate file gives it (later files are not read, even when
\* the first lacks the key), otherwise to its default; no file changes a
\* variable the environment had set.
C25_LayeredConfiguration ==
    /\ api_config # Unset =>
          \A field \in ConfigFields :
             api_config[field] = Layered(ConfigKey(field), DefaultOf(field))
    /\ \A k \in EnvNames : launch_env[k] # None => environ[k] = launch_env[k]

\* a resolved configuration that shows the three layers at once: the user
\* comes from the environment although the file read names another one,
\* the password from the second candidate file, the first being absent,
\* and the URL is the default although the third file gives one
C25_Witness ==
    /\ api_config # Unset
    /\ pc # "hbot_connected"
    /\ launch_env[API_USER] = Some(<<"e","n","v">>)
    /\ launch_env[API_PASS] = None
    /\ launch_env[HUMMINGBOT_API_URL] = None
    /\ env_files[env_paths[1]] = None
    /\ env_files[env_paths[2]] = Some(dotenv_credentials)
    /\ env_files[env_paths[3]] =
          Some(dotenv_url)
    /\ api_config.user = <<"e","n","v">>
    /\ api_config.password = <<"p","w">>
    /\ api_config.url = default_url

----------------------------------------------------------------------------
\* the entry of the venue's price document a quote was made from
EntryFor(q) ==
    LET it == ItemsOf(q.connector)
    IN it[CHOOSE i \in DOMAIN it : it[i][1] = q.pair][2]

\* C26: a Quote made from an object that contains mid_price has mid_price
\* as its price (so none is made when mid_price is zero or negative,
\* whatever the price field holds); the price field is used only when
\* mid_price is absent; a Quote made from a bare number has that number as
\* its price and null bid and ask.
C26_PriceNormalisation ==
    \A i \in DOMAIN prices :
       LET q == prices[i]
           d == EntryFor(q)
       IN /\ (d[1] = "obj" /\ d[2] # JAbsent) => d[2] = JNum(q.price)
          /\ (d[1] = "obj" /\ d[2] = JAbsent) => d[3] = JNum(q.price)
          /\ d[1] = "num" =>
                (d[2] = q.price /\ q.bid = None /\ q.ask = None)

----------------------------------------------------------------------------
\* an entry that is well formed and carries a positive price
WellFormed(d) ==
    /\ EntryPrice(d)[1] = "num" /\ EntryPrice(d)[2] > 0
    /\ EntryBid(d)[1] \in {"num", "null"}
    /\ EntryAsk(d)[1] \in {"num", "null"}

\* C27: a malformed entry of a price response costs that entry only: once
\* a venue's response is consumed, every requested pair in it that is well
\* formed with a positive price has its Quote, wherever the response lists
\* it, and no run is aborted by a malformed entry.
C27_MalformedEntryLocal ==
    /\ \A i \in DOMAIN price_futures :
          price_futures[i].yielded =>
             LET v == price_futures[i].connector
                 it == ItemsOf(v)
             IN \A k \in DOMAIN it :
                   (/\ ~HasKey(it, ErrorKey)
                    /\ Upper(it[k][1]) \in
                          {Upper(p) : p \in Range(price_futures[i].pairs)}
                    /\ WellFormed(it[k][2]))
                   => \E q \in Range(prices) :
                         q.connector = v /\ q.pair = it[k][1]
    /\ price_futures # <<>> => stderr # "traceback"

----------------------------------------------------------------------------
\* C28: every run ends: under fair scheduling, with every issued call
\* ending, the process exits with status 0 or with a fatal status 1; no
\* worker failure leaves the main thread waiting at a pool barrier.
C28_RunFinishes == <>(pc = "exited" /\ exit_code \in {0, 1})

\* a run that has ended although a worker raised in the first pool and
\* another in the second
C28_Witness ==
    /\ pc = "exited"
    /\ \E v \in Range(connectors) : pairsResp[v].kind = "raise"
    /\ \E i \in DOMAIN price_futures : price_futures[i].result[1].raised

----------------------------------------------------------------------------
\* C29: the filtered quote set is never empty when the quote set is
\* non-empty: once the run is past the outlier filter with at least one
\* collected quote, filtered_prices holds at least one quote.
C29_FilteredNonEmpty ==
    (pc \in {"spread", "rank", "output", "exited"} /\ prices # <<>>)
        => filtered_prices # <<>>

----------------------------------------------------------------------------
\* the lowest and the highest price of a non-empty quote list, by value
LowestPrice(ps) ==
    CHOOSE p \in Range(PricesOf(ps)) : \A q \in Range(PricesOf(ps)) : p <= q
HighestPrice(ps) ==
    CHOOSE p \in Range(PricesOf(ps)) : \A q \in Range(PricesOf(ps)) : p >= q

\* (highest - lowest) / lowest * 100 as line 297 computes it: an infinite
\* ratio when only the highest price is infinite
HeadlineSpread(lowest, highest) ==
    IF highest = inf /\ lowest # inf THEN [num |-> 1, den |-> 0]
    ELSE Frac((highest - lowest) * 100, lowest)

\* C30: the top-ranked opportunity is the headline spread: whenever the
\* ranked opportunity list is non-empty, its first element buys at the lowest
\* and sells at the highest filtered price, its spread_pct is
\* (highest - lowest) / lowest * 100, and no opportunity has a larger
\* spread_pct.
C30_TopIsHeadline ==
    (Ranked /\ opportunities # <<>>) =>
        LET lowest == LowestPrice(filtered_prices)
            highest == HighestPrice(filtered_prices)
            top == opportunities[1]
        IN /\ top.buy_price = lowest
           /\ top.sell_price = highest
           /\ top.spread_pct = HeadlineSpread(lowest, highest)
           /\ \A k \in DOMAIN opportunities :
                 FracGE(top.spread_pct, opportunities[k].spread_pct)

\* a ranked list of three or more opportunities over a filtered set that lost
\* an outlier, in which the pair the double loop emits first (lowest with
\* second lowest) has a smaller spread than the headline
C30_Witness ==
    /\ Ranked
    /\ Len(opportunities) >= 3
    /\ Len(filtered_prices) >= 3
    /\ Len(filtered_prices) < Len(prices)
    /\ filtered_prices[2].price < HighestPrice(filtered_prices)
    /\ \E k \in DOMAIN opportunities :
          FracGT(opportunities[1].spread_pct, opportunities[k].spread_pct)

====
